---- MODULE Spec2Model ----
(***************************************************************************)
(* Model of the in-memory text search and relevance-ranking engine of the  *)
(* fashion catalogue (class FashionCatalogue, src/script.js).              *)
(*                                                                         *)
(* Text is a TLA+ string; a character is a string of length one.  JS       *)
(* numbers that can be fractional (scores, coverage, similarity and the    *)
(* fuzzy threshold) are exact rationals <<numerator, denominator>>.  For   *)
(* the magnitudes that occur here sums of multiples of 0.5 are exact in    *)
(* IEEE doubles and the comparisons 1 - d/len >= 0.8 (0.7, 0.5) agree with *)
(* the exact rationals.                                                    *)
(*                                                                         *)
(* The analytics queue (class UserAnalytics, src/analytics.js) and the     *)
(* favorites manager (class FavoritesManager, src/favorites.js) are        *)
(* modelled beside it, each with its own variables.                        *)
(***************************************************************************)
EXTENDS Integers, Sequences, FiniteSets, TLC

VARIABLES
    phase,          \* position of init(): "constructed" | "ready"
    allProducts,    \* this.allProducts
    searchIndex,    \* this.searchIndex
    called,         \* the engine method called last: "none" | "performAdvancedSearch"
    lastQuery,      \* argument of the most recent performAdvancedSearch call
    searchResults,  \* value returned by the most recent performAdvancedSearch
    scorerPc,       \* "args" | "calculateRelevanceScore"
    searchTokens,   \* argument of the calculateRelevanceScore call
    relevance,      \* value returned by calculateRelevanceScore
    term1,          \* arguments of the most recent fuzzyMatch /
    term2,          \*   levenshteinDistance call
    threshold,
    fuzzyPc,        \* "args" | "fuzzyMatch" | "levenshteinDistance"
    matched,        \* value returned by fuzzyMatch
    distance,       \* value returned by levenshteinDistance
    rawText,        \* argument of the normalizeText / tokenize calls
    textPc,         \* "args" | "normalizeText" | "normalizeTextAgain" | "tokenize"
                    \*   | "tokenizeAgain" | "buildSearchIndex" | "TypeError"
    normalizedText, \* value returned by normalizeText(rawText)
    normalizedTwice,\* value returned by normalizeText(normalizedText)
    textTokens,     \* value returned by tokenize(rawText)
    textTokensAgain,\* value returned by a second tokenize(rawText)
    suggestionSet,  \* the Set of generateSearchSuggestions before Array.from
    suggestions,    \* value returned by the most recent generateSearchSuggestions
    loadError,      \* what the catch block of loadData caught: NULL | "fetch"
                    \*   | "TypeError"
    filters,        \* this.filters
    filteredProducts,   \* this.filteredProducts
    displayedProducts,  \* this.displayedProducts
    currentPage,    \* this.currentPage
    isLoading,      \* this.isLoading
    pendingLoads,   \* number of pending setTimeout callbacks of loadMoreProducts
    searchTimeout,  \* the pending debounce callback that this.searchTimeout
                    \*   refers to, as the query it holds, or NULL
    searchTimers,   \* the queries of the debounce callbacks that are scheduled
    searchInput,    \* the value of #search-input
    searchResultsInfo,  \* what updateSearchResultsInfo last showed
    eventQueue,     \* UserAnalytics.eventQueue, as the numbers of the queued events
    isOnline,       \* UserAnalytics.isOnline
    tracked,        \* the table of every event pushed so far; event k is the
                    \*   k-th one pushed
    flushes,        \* the flushQueue calls with a request in flight
    delivered,      \* how many times the backend stored each event
    failedRequests, \* number of requests that failed so far
    authEvent,      \* the auth state change delivered last: "SIGNED_IN" |
                    \*   "SIGNED_OUT"
    userFavorites,  \* FavoritesManager.userFavorites
    backendFavorites,   \* the product ids of the user's rows of user_favorites
    requests,       \* the backend requests of the manager that are in flight
    lastOutcome     \* how the addFavorite / removeFavorite / loadUserFavorites
                    \*   call that completed last ended

catalogueVars == <<phase, allProducts, searchIndex, called, lastQuery, searchResults>>
scorerVars    == <<scorerPc, searchTokens, relevance>>
fuzzyVars     == <<term1, term2, threshold, fuzzyPc, matched, distance>>
textVars      == <<rawText, textPc, normalizedText, normalizedTwice, textTokens,
                   textTokensAgain>>
suggestVars   == <<suggestionSet, suggestions>>
uiVars        == <<loadError, filters, filteredProducts, displayedProducts, currentPage,
                   isLoading, pendingLoads, searchTimeout, searchTimers, searchInput,
                   searchResultsInfo>>
analyticsVars == <<eventQueue, isOnline, tracked, flushes, delivered, failedRequests>>
favoritesVars == <<authEvent, userFavorites, backendFavorites, requests, lastOutcome>>
serviceVars   == <<analyticsVars, favoritesVars>>
vars          == <<catalogueVars, scorerVars, fuzzyVars, textVars, suggestVars, uiVars,
                   serviceVars>>

(***************************************************************************)
(* Bounds of the model.                                                    *)
(***************************************************************************)
MaxEvents   == 12   \* events the page tracks, those of the backlog included
MaxFlushes  == 2    \* flushQueue calls in flight at once
MaxFailures == 1    \* analytics requests that fail
MaxSearches == 1    \* searches the page tracks
MaxRequests == 2    \* favorites requests in flight at once
MaxTermLen  == 4    \* longest generated fuzzyMatch argument
MaxProducts == 3    \* largest catalogue that loadData fetches
MaxWords    == 2    \* most words in a generated title/description/query
MaxTextLen  == 4    \* longest generated normalizeText / tokenize argument

(***************************************************************************)
(* JS values.                                                              *)
(***************************************************************************)
\* null / undefined where a string is expected: a value that is no text.
NULL == "\\null"

\* A JSON value that is truthy and no string, such as the number 42, where
\* text is expected: it has no toLowerCase method.
aNumber == "\\number"

isString(text) == text # NULL /\ text # aNumber

\* Exact rationals <<n, d>> with d > 0, kept in lowest terms.  NaN is the
\* value of 0 / 0, the only division by zero that occurs here; arithmetic
\* on NaN gives NaN and every comparison with NaN is false.
NaN == <<0, 0>>

RECURSIVE GCD(_, _)
GCD(a, b) == IF b = 0 THEN a ELSE GCD(b, a % b)

Abs(n) == IF n < 0 THEN 0 - n ELSE n

Rat(n, d) ==
    IF d = 0 THEN NaN
    ELSE LET g == GCD(Abs(n), d) IN <<n \div g, d \div g>>

RatAdd(a, b) == Rat(a[1] * b[2] + b[1] * a[2], a[2] * b[2])
RatSub(a, b) == Rat(a[1] * b[2] - b[1] * a[2], a[2] * b[2])
RatMul(a, b) == Rat(a[1] * b[1], a[2] * b[2])
RatLess(a, b) == a[2] # 0 /\ b[2] # 0 /\ a[1] * b[2] < b[1] * a[2]
RatGeq(a, b) == a[2] # 0 /\ b[2] # 0 /\ a[1] * b[2] >= b[1] * a[2]
\* sign of b - a, as a sort comparator uses it (NaN counts as 0)
RatCmp(b, a) == IF RatLess(a, b) THEN 1 ELSE IF RatLess(b, a) THEN -1 ELSE 0

Max(a, b) == IF a > b THEN a ELSE b
Min(a, b) == IF a < b THEN a ELSE b

(***************************************************************************)
(* String primitives of the JS runtime.                                    *)
(***************************************************************************)
LowerCase == "abcdefghijklmnopqrstuvwxyz"
UpperCase == "ABCDEFGHIJKLMNOPQRSTUVWXYZ"
Digits    == "0123456789"

\* String.prototype.charAt, 0-based
charAt(s, k) == SubSeq(s, k + 1, k + 1)

\* s.substring(k): the suffix from 0-based position k
substringFrom(s, k) == SubSeq(s, k + 1, Len(s))

InString(c, s) == \E k \in 0..(Len(s) - 1) : charAt(s, k) = c

\* \w of a JS regular expression: [A-Za-z0-9_]
IsWordChar(c) ==
    InString(c, LowerCase) \/ InString(c, UpperCase) \/ InString(c, Digits) \/ c = "_"

\* \s of a JS regular expression (the whitespace that occurs in product text)
IsSpace(c) == c \in {" ", "\t", "\n", "\r"}

\* String.prototype.toLowerCase, one character
LowerChar(c) ==
    IF InString(c, UpperCase)
    THEN charAt(LowerCase, CHOOSE k \in 0..25 : charAt(UpperCase, k) = c)
    ELSE c

RECURSIVE toLowerCase(_)
toLowerCase(s) ==
    IF s = "" THEN "" ELSE LowerChar(charAt(s, 0)) \o toLowerCase(substringFrom(s, 1))

\* String.prototype.includes
includes(s, sub) ==
    \E k \in 0..(Len(s) - Len(sub)) : SubSeq(s, k + 1, k + Len(sub)) = sub

\* String.prototype.trim
RECURSIVE trimStart(_)
trimStart(s) ==
    IF s # "" /\ IsSpace(charAt(s, 0)) THEN trimStart(substringFrom(s, 1)) ELSE s

RECURSIVE trimEnd(_)
trimEnd(s) ==
    IF s # "" /\ IsSpace(charAt(s, Len(s) - 1))
    THEN trimEnd(SubSeq(s, 1, Len(s) - 1))
    ELSE s

trim(s) == trimEnd(trimStart(s))

\* s.split(' '): the pieces between single spaces, empty pieces included
RECURSIVE splitFrom(_, _)
splitFrom(s, piece) ==
    IF s = "" THEN <<piece>>
    ELSE IF charAt(s, 0) = " "
         THEN <<piece>> \o splitFrom(substringFrom(s, 1), "")
         ELSE splitFrom(substringFrom(s, 1), piece \o charAt(s, 0))

split(s) == splitFrom(s, "")

\* Array.prototype.includes
arrayIncludes(arr, x) == \E k \in 1..Len(arr) : arr[k] = x

(***************************************************************************)
(* Tokenizer / normaliser (script.js 21, 91-106).                          *)
(***************************************************************************)
stopWords ==
    {"the", "a", "an", "and", "or", "but", "in", "on", "at", "to", "for", "of",
     "with", "by", "is", "are", "was", "were", "be", "been", "have", "has",
     "had", "do", "does", "did", "will", "would", "could", "should"}

\* .replace(/[^\w\s]/g, ' ')
RECURSIVE replacePunctuation(_)
replacePunctuation(s) ==
    IF s = "" THEN ""
    ELSE LET c == charAt(s, 0) IN
         (IF IsWordChar(c) \/ IsSpace(c) THEN c ELSE " ")
             \o replacePunctuation(substringFrom(s, 1))

\* .replace(/[-_]/g, ' ')
RECURSIVE replaceHyphens(_)
replaceHyphens(s) ==
    IF s = "" THEN ""
    ELSE LET c == charAt(s, 0) IN
         (IF c \in {"-", "_"} THEN " " ELSE c) \o replaceHyphens(substringFrom(s, 1))

\* .replace(/\s+/g, ' '): every maximal run of whitespace becomes one space
RECURSIVE collapseSpaces(_, _)
collapseSpaces(s, inRun) ==
    IF s = "" THEN ""
    ELSE LET c == charAt(s, 0) IN
         IF IsSpace(c)
         THEN (IF inRun THEN "" ELSE " ") \o collapseSpaces(substringFrom(s, 1), TRUE)
         ELSE c \o collapseSpaces(substringFrom(s, 1), FALSE)

\* text.toLowerCase() (script.js 94) throws "text.toLowerCase is not a function"
\* when text is truthy and no string; normalizeText and tokenize are defined
\* below for the arguments on which they return.
throwsTypeError(text) == text # NULL /\ text # "" /\ ~isString(text)

\* normalizeText that collapses whitespace before it replaces punctuation.
normalizeTextCollapseFirst(text) ==
    IF text = NULL \/ text = "" THEN ""
    ELSE trim(replaceHyphens(replacePunctuation(collapseSpaces(toLowerCase(text), FALSE))))

normalizeText(text) ==
    IF text = NULL \/ text = "" THEN ""
    ELSE trim(collapseSpaces(replaceHyphens(replacePunctuation(toLowerCase(text))), FALSE))

\* tokenize without the stop-word filter.
tokenizeKeepStopWords(text) ==
    IF text = NULL \/ text = "" THEN <<>>
    ELSE SelectSeq(split(normalizeText(text)), LAMBDA token : Len(token) > 1)

tokenize(text) ==
    IF text = NULL \/ text = "" THEN <<>>
    ELSE LET longEnough == SelectSeq(split(normalizeText(text)), LAMBDA token : Len(token) > 1)
         IN  SelectSeq(longEnough, LAMBDA token : token \notin stopWords)

(***************************************************************************)
(* Fuzzy matcher (script.js 188-229).                                      *)
(***************************************************************************)
\* levenshteinRow without the deletion alternative matrix[i - 1][j] + 1.
RECURSIVE levenshteinRowNoDeletion(_, _, _, _, _)
levenshteinRowNoDeletion(str1, str2, i, above, row) ==
    LET j == Len(row) IN
    IF j > Len(str1) THEN row
    ELSE LET cell ==
                 IF charAt(str2, i - 1) = charAt(str1, j - 1)
                 THEN above[j]
                 ELSE Min(above[j] + 1, row[j] + 1)
         IN  levenshteinRowNoDeletion(str1, str2, i, above, Append(row, cell))

\* One row of the matrix: row holds matrix[i][0 .. Len(row)-1]; fills the rest
\* for j = Len(row) .. str1.length (script.js 215-225).
RECURSIVE levenshteinRow(_, _, _, _, _)
levenshteinRow(str1, str2, i, above, row) ==
    LET j == Len(row) IN
    IF j > Len(str1) THEN row
    ELSE LET cell ==
                 IF charAt(str2, i - 1) = charAt(str1, j - 1)
                 THEN above[j]                       \* matrix[i-1][j-1]
                 ELSE Min(above[j] + 1,              \* substitution
                          Min(row[j] + 1,            \* insertion
                              above[j + 1] + 1))     \* deletion
         IN  levenshteinRow(str1, str2, i, above, Append(row, cell))

\* The rows i .. str2.length, given row i-1 (script.js 214-226).
RECURSIVE levenshteinRows(_, _, _, _)
levenshteinRows(str1, str2, i, above) ==
    IF i > Len(str2) THEN above
    ELSE levenshteinRows(str1, str2, i + 1, levenshteinRow(str1, str2, i, above, <<i>>))

levenshteinDistance(str1, str2) ==
    LET row0 == [j \in 1..(Len(str1) + 1) |-> j - 1]    \* matrix[0][j] = j
        last == levenshteinRows(str1, str2, 1, row0)
    IN  last[Len(str1) + 1]                             \* matrix[str2.length][str1.length]

\* fuzzyMatch(term1, term2, threshold = 0.8)
defaultThreshold == <<4, 5>>

\* fuzzyMatch that tests containment in one direction only.
fuzzyMatchOneWayContainment(t1, t2, thr) ==
    IF t1 = t2 THEN TRUE
    ELSE IF Len(t1) < 3 \/ Len(t2) < 3 THEN FALSE
    ELSE IF includes(t1, t2) THEN TRUE
    ELSE LET dist       == levenshteinDistance(t1, t2)
             maxLength  == Max(Len(t1), Len(t2))
             similarity == RatSub(<<1, 1>>, Rat(dist, maxLength))
         IN  RatGeq(similarity, thr)

\* fuzzyMatch with similarity > threshold.
fuzzyMatchStrictThreshold(t1, t2, thr) ==
    IF t1 = t2 THEN TRUE
    ELSE IF Len(t1) < 3 \/ Len(t2) < 3 THEN FALSE
    ELSE IF includes(t1, t2) \/ includes(t2, t1) THEN TRUE
    ELSE LET dist       == levenshteinDistance(t1, t2)
             maxLength  == Max(Len(t1), Len(t2))
             similarity == RatSub(<<1, 1>>, Rat(dist, maxLength))
         IN  RatLess(thr, similarity)

fuzzyMatch(t1, t2, thr) ==
    IF t1 = t2 THEN TRUE
    ELSE IF Len(t1) < 3 \/ Len(t2) < 3 THEN FALSE
    ELSE IF includes(t1, t2) \/ includes(t2, t1) THEN TRUE
    ELSE LET dist       == levenshteinDistance(t1, t2)
             maxLength  == Max(Len(t1), Len(t2))
             similarity == RatSub(<<1, 1>>, Rat(dist, maxLength))
         IN  RatGeq(similarity, thr)

(***************************************************************************)
(* Products.  A product is [id, title, description, confidence_score];     *)
(* title and description stand for original_data?.title and                *)
(* original_data?.description and are NULL when absent; confidence_score   *)
(* is a rational or undefined.                                             *)
(***************************************************************************)
undefined == <<>>

\* (product.confidence_score || 0)
confidenceOrZero(product) ==
    IF product.confidence_score = undefined THEN <<0, 1>> ELSE product.confidence_score

\* text || ''
orEmpty(text) == IF text = NULL THEN "" ELSE text

\* Array.prototype.sort with a comparator (stable, ECMAScript 2019).  cmp[i, j]
\* is the comparator's value on the elements at positions i and j of arr.  Of
\* two positions the later one moves in front of the earlier one exactly when
\* the comparator is positive on (earlier, later); the rank of a position is
\* one more than the number of positions that come in front of it.
comesBefore(j, i, cmp) ==
    \/ j < i /\ cmp[j, i] <= 0
    \/ j > i /\ cmp[i, j] > 0

stableRanks(n, cmp) ==
    SubSeq([i \in 1..n |-> 1 + Cardinality({j \in 1..n : comesBefore(j, i, cmp)})],
           1, n)

permute(arr, ranks) ==
    [p \in 1..Len(arr) |-> arr[CHOOSE i \in 1..Len(arr) : ranks[i] = p]]

sort(arr, cmp) == permute(arr, stableRanks(Len(arr), cmp))

(***************************************************************************)
(* Index builder (script.js 108-121).                                      *)
(***************************************************************************)
\* this.allProducts.map throws at the first product whose title or description
\* makes tokenize throw; this.searchIndex is then not assigned.
buildSearchIndexThrows(products) ==
    \E k \in 1..Len(products) :
        throwsTypeError(products[k].title) \/ throwsTypeError(products[k].description)

buildSearchIndex(products) ==
    [k \in 1..Len(products) |->
        LET product == products[k] IN
        [productIndex          |-> k - 1,
         titleTokens           |-> tokenize(product.title),
         descriptionTokens     |-> tokenize(product.description),
         normalizedTitle       |-> normalizeText(product.title),
         normalizedDescription |-> normalizeText(product.description),
         allTokens             |-> tokenize(orEmpty(product.title))
                                       \o tokenize(orEmpty(product.description))]]

(***************************************************************************)
(* Relevance scorer (script.js 123-186).                                   *)
(***************************************************************************)
\* addBonus that assigns the weight instead of adding it.
addBonusOverwrite(term, weight) ==
    [termScore |-> weight, termMatched |-> TRUE]

\* termScore += weight; termMatched = true
addBonus(term, weight) ==
    [termScore |-> RatAdd(term.termScore, weight), termMatched |-> TRUE]

\* fuzzyBonuses that skips a token identical to the search token.
RECURSIVE fuzzyBonusesSkipIdentical(_, _, _, _, _)
fuzzyBonusesSkipIdentical(searchToken, tokens, k, weight, term) ==
    IF k > Len(tokens) THEN term
    ELSE fuzzyBonusesSkipIdentical(searchToken, tokens, k + 1, weight,
             IF /\ tokens[k] # searchToken
                /\ fuzzyMatch(searchToken, tokens[k], defaultThreshold)
             THEN addBonus(term, weight)
             ELSE term)

\* tokens.forEach(token => { if (this.fuzzyMatch(searchToken, token)) ... })
RECURSIVE fuzzyBonuses(_, _, _, _, _)
fuzzyBonuses(searchToken, tokens, k, weight, term) ==
    IF k > Len(tokens) THEN term
    ELSE fuzzyBonuses(searchToken, tokens, k + 1, weight,
                      IF fuzzyMatch(searchToken, tokens[k], defaultThreshold)
                      THEN addBonus(term, weight)
                      ELSE term)

\* if (condition) { termScore += weight; termMatched = true; }
bonusIf(condition, term, weight) ==
    IF condition THEN addBonus(term, weight) ELSE term

\* The body of searchTokens.forEach up to line 168: termScore and termMatched.
termRelevance(searchToken, product) ==
    LET t0 == [termScore |-> <<0, 1>>, termMatched |-> FALSE]
        t1 == bonusIf(arrayIncludes(product.titleTokens, searchToken), t0, <<3, 1>>)
        t2 == fuzzyBonuses(searchToken, product.titleTokens, 1, <<2, 1>>, t1)
        t3 == bonusIf(arrayIncludes(product.descriptionTokens, searchToken), t2, <<1, 1>>)
        t4 == fuzzyBonuses(searchToken, product.descriptionTokens, 1, <<1, 2>>, t3)
        t5 == bonusIf(includes(product.normalizedTitle, searchToken), t4, <<1, 1>>)
        t6 == bonusIf(includes(product.normalizedDescription, searchToken), t5, <<1, 2>>)
    IN  t6

\* addTerm with matchedTerms++ outside the if (termMatched).
addTermCountAll(acc, term) ==
    [score        |-> IF term.termMatched
                      THEN RatAdd(acc.score, term.termScore)
                      ELSE acc.score,
     matchedTerms |-> acc.matchedTerms + 1]

\* if (termMatched) { matchedTerms++; score += termScore; }
addTerm(acc, term) ==
    IF term.termMatched
    THEN [score        |-> RatAdd(acc.score, term.termScore),
          matchedTerms |-> acc.matchedTerms + 1]
    ELSE acc

\* searchTokens.forEach(...): accumulates score and matchedTerms.
RECURSIVE scoreTerms(_, _, _, _)
scoreTerms(tokens, product, k, acc) ==
    IF k > Len(tokens) THEN acc
    ELSE scoreTerms(tokens, product, k + 1,
                    addTerm(acc, termRelevance(tokens[k], product)))

\* Lines 176-185: the coverage bonus and the returned object.
withCoverage(acc, totalTerms) ==
    [score        |-> RatAdd(acc.score,
                             RatMul(Rat(acc.matchedTerms, totalTerms), <<2, 1>>)),
     matchedTerms |-> acc.matchedTerms,
     totalTerms   |-> totalTerms,
     coverage     |-> Rat(acc.matchedTerms, totalTerms)]

\* Lines 125-185 on one index entry.
relevanceOf(tokens, product) ==
    withCoverage(scoreTerms(tokens, product, 1, [score |-> <<0, 1>>, matchedTerms |-> 0]),
                 Len(tokens))

calculateRelevanceScore(tokens, productIndex) ==
    relevanceOf(tokens, searchIndex[productIndex + 1])

(***************************************************************************)
(* Search orchestrator (script.js 231-267).                                *)
(***************************************************************************)
\* this.allProducts.map((_, index) => ({ product: ..., score: 0 }))
passThrough ==
    [k \in 1..Len(allProducts) |-> [product |-> allProducts[k], score |-> <<0, 1>>]]

\* the object of results.push for a product and its relevance
resultOf(product, rel) ==
    [product      |-> product,
     score        |-> rel.score,
     matchedTerms |-> rel.matchedTerms,
     coverage     |-> rel.coverage]

\* the object that the callback of this.searchIndex.forEach makes for each
\* index entry, in index order
scoredEntries(tokens) ==
    [k \in 1..Len(searchIndex) |->
        resultOf(allProducts[searchIndex[k].productIndex + 1],
                 calculateRelevanceScore(tokens, k - 1))]

\* isPushed without the matchedTerms > 0 test: every entry is retained.
isPushedAlways(result) == TRUE

\* if (relevance.matchedTerms > 0) results.push({...})
isPushed(result) == result.matchedTerms > 0

\* results after this.searchIndex.forEach: the pushed objects in index order
collectResults(tokens) == SelectSeq(scoredEntries(tokens), isPushed)

\* compareResults with the score difference reversed (a.score - b.score).
compareResultsAscending(a, b) ==
    IF b.score # a.score THEN RatCmp(a.score, b.score)
    ELSE IF b.coverage # a.coverage THEN RatCmp(b.coverage, a.coverage)
    ELSE RatCmp(confidenceOrZero(b.product), confidenceOrZero(a.product))

\* compareResults without the coverage tie-break.
compareResultsNoCoverage(a, b) ==
    IF b.score # a.score THEN RatCmp(b.score, a.score)
    ELSE RatCmp(confidenceOrZero(b.product), confidenceOrZero(a.product))

\* The comparator of results.sort (script.js 258-264).
compareResults(a, b) ==
    IF b.score # a.score THEN RatCmp(b.score, a.score)
    ELSE IF b.coverage # a.coverage THEN RatCmp(b.coverage, a.coverage)
    ELSE RatCmp(confidenceOrZero(b.product), confidenceOrZero(a.product))

\* The comparator's value on every pair of positions of results.
resultComparisons(results) ==
    [i \in 1..Len(results), j \in 1..Len(results) |->
        compareResults(results[i], results[j])]

\* performAdvancedSearch without the zero-token guard of lines 237-239.
performAdvancedSearchNoTokenGuard(query) ==
    IF query = NULL \/ query = "" \/ Len(trim(query)) = 0 THEN passThrough
    ELSE LET results == collectResults(tokenize(query)) IN
         sort(results, resultComparisons(results))

performAdvancedSearch(query) ==
    IF query = NULL \/ query = "" \/ Len(trim(query)) = 0 THEN passThrough
    ELSE LET tokens == tokenize(query) IN
         IF Len(tokens) = 0 THEN passThrough
         ELSE LET results == collectResults(tokens) IN
              sort(results, resultComparisons(results))

\* The comparator of loadData with its operands exchanged.
compareConfidenceAscending(a, b) == RatCmp(confidenceOrZero(a), confidenceOrZero(b))

\* The comparator of this.allProducts.sort in loadData (script.js 42).
compareConfidence(a, b) == RatCmp(confidenceOrZero(b), confidenceOrZero(a))

confidenceComparisons(products) ==
    [i \in 1..Len(products), j \in 1..Len(products) |->
        compareConfidence(products[i], products[j])]

(***************************************************************************)
(* Suggestion generator (script.js 803-826).                               *)
(***************************************************************************)
suggestionThreshold == <<7, 10>>

\* Array.prototype.slice(0, n)
sliceFirst(arr, n) == SubSeq(arr, 1, Min(n, Len(arr)))

\* suggests with the default fuzzy threshold 0.8 in place of 0.7.
suggestsDefaultThreshold(queryToken, token) ==
    \/ token # queryToken /\ fuzzyMatch(queryToken, token, defaultThreshold)
    \/ Len(token) > Len(queryToken) /\ includes(token, queryToken)

\* suggests without the test token !== queryToken.
suggestsIdentical(queryToken, token) ==
    \/ fuzzyMatch(queryToken, token, suggestionThreshold)
    \/ Len(token) > Len(queryToken) /\ includes(token, queryToken)

\* The two conditions of lines 813 and 818 on one (queryToken, token) pair.
suggests(queryToken, token) ==
    \/ token # queryToken /\ fuzzyMatch(queryToken, token, suggestionThreshold)
    \/ Len(token) > Len(queryToken) /\ includes(token, queryToken)

\* The concatenation of the sequences of seqs: the element at position o is
\* element o - offset of the sequence whose offset, the total length of the
\* sequences in front of it, is the largest one below o.
lengthsBefore(seqs) ==
    [k \in 1..(Len(seqs) + 1) |->
        Cardinality(UNION {{<<j, t>> : t \in 1..Len(seqs[j])} : j \in 1..(k - 1)})]

elementAt(seqs, before, o) ==
    seqs[CHOOSE k \in 1..Len(seqs) : before[k] < o /\ o <= before[k + 1]]
        [o - before[CHOOSE k \in 1..Len(seqs) : before[k] < o /\ o <= before[k + 1]]]

concatenate(seqs, before) ==
    [o \in 1..before[Len(seqs) + 1] |-> elementAt(seqs, before, o)]

\* the tokens that the two inner loops visit, in the order of the visits:
\* index entries in index order, each entry's allTokens in sequence order
visitedTokens ==
    concatenate([k \in 1..Len(searchIndex) |-> searchIndex[k].allTokens],
                lengthsBefore([k \in 1..Len(searchIndex) |-> searchIndex[k].allTokens]))

\* queryTokens.forEach: suggestions.add(token) is called for a visited token
\* if some query token suggests it
isAdded(queryTokens, token) ==
    \E q \in 1..Len(queryTokens) : suggests(queryTokens[q], token)

\* the arguments of the suggestions.add calls, in call order
addedTokens(queryTokens) ==
    SelectSeq(visitedTokens, LAMBDA token : isAdded(queryTokens, token))

\* insertionOrder that keeps the repeated adds.
insertionOrderNoDedupe(added) == added

\* Array.from of a Set after the adds: a Set iterates in insertion order and
\* an add of an element it holds changes nothing
insertionOrder(added) ==
    SelectSeq([i \in 1..Len(added) |->
                  IF \E j \in 1..(i - 1) : added[j] = added[i] THEN NULL ELSE added[i]],
              LAMBDA token : token # NULL)

\* the Set suggestions when the three nested loops are done
collectSuggestions(query) == insertionOrder(addedTokens(tokenize(query)))

maxSuggestions == 5

generateSearchSuggestions(query) == sliceFirst(collectSuggestions(query), maxSuggestions)

(***************************************************************************)
(* Filters and pagination (script.js 6, 8-15, 777-801, 880-980).           *)
(* filters.attributes and a product's attributes are sets of pairs         *)
(* <<attribute, value>>; an attribute without pair is an absent key.       *)
(***************************************************************************)
itemsPerPage == 24

\* null where a number is expected
null == <<>>

noFilters ==
    [brands |-> {}, categories |-> {}, attributes |-> {}, priceMin |-> null,
     priceMax |-> null, searchQuery |-> ""]

\* this.filters.searchQuery && this.filters.searchQuery.trim().length > 0
hasSearchQuery(f) == f.searchQuery # "" /\ Len(trim(f.searchQuery)) > 0

\* searchResults.map(result => result.product)
productsOf(results) == [k \in 1..Len(results) |-> results[k].product]

productsToFilter(f) ==
    IF hasSearchQuery(f) THEN productsOf(performAdvancedSearch(f.searchQuery))
    ELSE allProducts

\* if (price): undefined, 0 and NaN are falsy
isTruthyNumber(x) == x # undefined /\ x[1] # 0

\* item.attributes?.[attr]?.value
attributeValue(item, attr) ==
    IF \E pair \in item.attributes : pair[1] = attr
    THEN (CHOOSE pair \in item.attributes : pair[1] = attr)[2]
    ELSE NULL

\* the filter callback of lines 896-930
passesFilters(item, f) ==
    /\ f.brands # {} => item.brand \in f.brands
    /\ f.categories # {} => item.enriched_category \in f.categories
    /\ (f.priceMin # null \/ f.priceMax # null) /\ isTruthyNumber(item.price_eur) =>
           /\ ~(f.priceMin # null /\ RatLess(item.price_eur, f.priceMin))
           /\ ~(f.priceMax # null /\ RatLess(f.priceMax, item.price_eur))
    /\ \A attr \in {pair[1] : pair \in f.attributes} :
           /\ attributeValue(item, attr) \notin {NULL, ""}
           /\ <<attr, attributeValue(item, attr)>> \in f.attributes

\* productsToFilter.filter(item => ...)
selectFiltered(toFilter, f) == SelectSeq(toFilter, LAMBDA item : passesFilters(item, f))

\* the value applyFilters assigns to this.filteredProducts
filterProducts(f) == selectFiltered(productsToFilter(f), f)

\* Array.prototype.slice(startIndex, endIndex)
slice(arr, startIndex, endIndex) ==
    SubSeq(arr, Min(startIndex, Len(arr)) + 1, Min(endIndex, Len(arr)))

\* what updateSearchResultsInfo writes to #search-results-info
noInfo == [query |-> "", resultCount |-> 0, didYouMean |-> <<>>]

maxShownSuggestions == 3

didYouMean(f, resultCount) ==
    IF resultCount = 0
    THEN sliceFirst(generateSearchSuggestions(f.searchQuery), maxShownSuggestions)
    ELSE <<>>

searchInfo(f, resultCount) ==
    IF hasSearchQuery(f)
    THEN [query |-> f.searchQuery, resultCount |-> resultCount,
          didYouMean |-> didYouMean(f, resultCount)]
    ELSE noInfo

(***************************************************************************)
(* Inputs.                                                                 *)
(***************************************************************************)
\* The products data/products.json may hold.
ProductPool ==
    {[id |-> 1, title |-> "Floral Dress", description |-> "Summer floral pattern",
      confidence_score |-> <<9, 10>>],
     [id |-> 2, title |-> "Red Dress", description |-> NULL,
      confidence_score |-> <<9, 10>>],
     [id |-> 3, title |-> "Red Dress", description |-> NULL,
      confidence_score |-> <<9, 10>>],
     [id |-> 4, title |-> "RED-DRESS!", description |-> "",
      confidence_score |-> undefined],
     [id |-> 5, title |-> "Hundred Coats", description |-> NULL,
      confidence_score |-> <<9, 10>>],
     [id |-> 6, title |-> "Top", description |-> "Hundred blouses, a dress",
      confidence_score |-> <<1, 2>>]}

\* The fetched array: up to MaxProducts distinct products in any order.
Catalogues ==
    UNION {{c \in [1..n -> ProductPool] : \A i, j \in 1..n : i # j => c[i] # c[j]}
           : n \in 0..MaxProducts}

\* A product whose title is a number.
malformedProduct ==
    [id |-> 7, title |-> aNumber, description |-> NULL, confidence_score |-> <<9, 10>>]

\* The fetched arrays: the catalogues, and the shortest of them with the
\* malformed product appended.
Fetched ==
    Catalogues \cup {Append(c, malformedProduct) : c \in {d \in Catalogues : Len(d) <= 1}}

\* Products whose tokens resemble one another, for the suggestion generator.
SuggestPool ==
    {[id |-> 11, title |-> "Dresses, dressy & dressed", description |-> NULL,
      confidence_score |-> undefined],
     [id |-> 12, title |-> "Dresser dressing sundress dresses", description |-> NULL,
      confidence_score |-> undefined],
     [id |-> 13, title |-> "Silk dress", description |-> "Milk-white redress",
      confidence_score |-> undefined],
     [id |-> 14, title |-> "Drss, red", description |-> "",
      confidence_score |-> undefined]}

SuggestCatalogues ==
    UNION {{c \in [1..n -> SuggestPool] : \A i, j \in 1..n : i # j => c[i] # c[j]}
           : n \in 0..MaxProducts}

SuggestQueries == {"", "drss", "Dress", "dress dresses", "re", "silk", "the"}

\* Generated catalogues of more than one page.  Product i takes its title,
\* description, category and colour from i modulo 3, its confidence from i
\* modulo 4, its brand from i modulo 2 and its price from i modulo 5.
PageTitles      == <<"Red XL", "XL", "Red Coats">>
PageDescriptions == <<NULL, "Red", "">>
PageCategories  == <<"dresses", "tops", "coats">>
PageColours     == <<{<<"color", "red">>}, {}, {<<"color", "blue">>}>>
PageConfidences == <<undefined, <<1, 2>>, <<9, 10>>, <<9, 10>>>>
PageBrands      == <<"Acme", "Zed">>
PagePrices      == <<<<0, 1>>, <<20, 1>>, <<40, 1>>, <<60, 1>>, undefined>>

pageProduct(i) ==
    [id |-> 100 + i,
     title |-> PageTitles[(i % 3) + 1],
     description |-> PageDescriptions[(i % 3) + 1],
     confidence_score |-> PageConfidences[(i % 4) + 1],
     brand |-> PageBrands[(i % 2) + 1],
     enriched_category |-> PageCategories[(i % 3) + 1],
     price_eur |-> PagePrices[(i % 5) + 1],
     attributes |-> PageColours[(i % 3) + 1]]

\* The lengths of the fetched arrays: one product, and one page and one
\* product.
CatalogueSizes == {1, itemsPerPage + 1}

PagedCatalogues == {[i \in 1..n |-> pageProduct(i)] : n \in CatalogueSizes}

\* What the user may type into the search box, and check or enter in the
\* filter panels.
TypedQueries    == {" Red", "coat"}
BrandChoices    == {{}, {"Acme"}}
CategoryChoices == {{}, {"dresses"}}
PriceChoices    == {<<null, null>>, <<<<20, 1>>, <<40, 1>>>>}
ColourChoices   == {{}, {"red"}}

\* The queries the search box may hold.
Queries ==
    {NULL, "", "  ", "the of", "a x", "floral", "Red dress", "red blouse", "drss", "silk"}

\* Generated text: up to n words of Words, separated by single spaces.
Words == {"Dress", "dresses", "drass", "re"}

RECURSIVE TextsOf(_)
TextsOf(n) ==
    IF n = 0 THEN {""}
    ELSE LET shorter == TextsOf(n - 1) IN
         shorter \cup {IF t = "" THEN w ELSE t \o " " \o w : t \in shorter, w \in Words}

Titles       == {NULL, "The A-line Dress"} \cup TextsOf(MaxWords)
Descriptions == {NULL, "", "dress", "The dresses.", "re-dress"}
TokenLists   == {tokenize(q) : q \in TextsOf(MaxWords)} \ {<<>>}

\* Generated fuzzyMatch arguments: every string over Alphabet up to MaxTermLen,
\* and some words.
Alphabet == {"a", "b"}

RECURSIVE StringsOf(_)
StringsOf(n) ==
    IF n = 0 THEN {""}
    ELSE LET shorter == StringsOf(n - 1) IN
         shorter \cup {t \o c : t \in shorter, c \in Alphabet}

\* Generated normalizeText / tokenize arguments: every string over
\* TextAlphabet up to MaxTextLen, some product text, and the values that are
\* no text.
TextAlphabet == {"a", "T", " ", "-", "_", "!"}

RECURSIVE RawStringsOf(_)
RawStringsOf(n) ==
    IF n = 0 THEN {""}
    ELSE LET shorter == RawStringsOf(n - 1) IN
         shorter \cup {t \o c : t \in shorter, c \in TextAlphabet}

RawTexts ==
    RawStringsOf(MaxTextLen)
        \cup {NULL, aNumber, "The\tRed-Hot  SILK_dress!", " A  size_42 (new)\n", "at-a-to"}

Terms      == StringsOf(MaxTermLen) \cup {"dress", "drass", "dresses", "kitten", "sitting"}
Thresholds == {defaultThreshold, <<7, 10>>, <<1, 2>>}

\* Words of 5 to 10 characters and what a slip of the keyboard makes of them:
\* one character replaced, left out or added, two neighbours exchanged, or
\* two such slips.
TypoWords == {"dress", "sweater", "sunglasses"}

substituteAt(s, k, c) == SubSeq(s, 1, k - 1) \o c \o SubSeq(s, k + 1, Len(s))
deleteAt(s, k)        == SubSeq(s, 1, k - 1) \o SubSeq(s, k + 1, Len(s))
insertAt(s, k, c)     == SubSeq(s, 1, k - 1) \o c \o SubSeq(s, k, Len(s))
swapAt(s, k) ==
    SubSeq(s, 1, k - 1) \o SubSeq(s, k + 1, k + 1) \o SubSeq(s, k, k)
        \o SubSeq(s, k + 2, Len(s))

Slips(s, letters) ==
    {substituteAt(s, k, c) : k \in 1..Len(s), c \in letters}
        \cup {deleteAt(s, k) : k \in 1..Len(s)}
        \cup {insertAt(s, k, c) : k \in 1..(Len(s) + 1), c \in letters}

Typos(word) ==
    Slips(word, {"x"})
        \cup {swapAt(word, k) : k \in 1..(Len(word) - 1)}
        \cup UNION {Slips(once, {"x"}) : once \in Slips(word, {"x"})}

TypoPairs == UNION {{<<word, typo>> : typo \in Typos(word)} : word \in TypoWords}

(***************************************************************************)
(* The analytics queue (class UserAnalytics, analytics.js 7-10, 256-328,   *)
(* 496-504, 528-588).  An event is its number in the order of the pushes;  *)
(* tracked gives its table.  A flush in flight is [eventsToSend, requests, *)
(* settled]: requests gives, for each table of the batch, whether its POST *)
(* is "pending", "ok" or "failed"; settled is "pending" until Promise.all  *)
(* settles and "rejected" once the catch block ran.                        *)
(***************************************************************************)
batchSize == 10

\* the events of a batch that go to one table: acc[event.table]
eventsOf(eventsToSend, log, table) ==
    SelectSeq(eventsToSend, LAMBDA event : log[event] = table)

\* Object.keys(eventsByTable)
tablesOf(eventsToSend, log) == {log[eventsToSend[k]] : k \in 1..Len(eventsToSend)}

\* this.eventQueue.splice(0, this.batchSize): the removed events
spliced(queue) == SubSeq(queue, 1, Min(batchSize, Len(queue)))

\* this.eventQueue after splice(0, this.batchSize)
afterSplice(queue) == SubSeq(queue, Min(batchSize, Len(queue)) + 1, Len(queue))

\* the catch block that appends the batch to the queue.
requeueAtTail(queue, eventsToSend) == queue \o eventsToSend

\* this.eventQueue.unshift(...eventsToSend) (analytics.js 570)
requeue(queue, eventsToSend) == eventsToSend \o queue

\* flushQueue up to await Promise.all (analytics.js 540-563) on the queue and
\* the isOnline the handler leaves: nothing when the queue is empty or the
\* browser is offline, else the batch is taken and one POST per table starts
flushQueue(queue, online, log) ==
    IF queue = <<>> \/ ~online
    THEN eventQueue' = queue /\ UNCHANGED flushes
    ELSE /\ eventQueue' = afterSplice(queue)
         /\ flushes' = Append(flushes,
                [eventsToSend |-> spliced(queue),
                 requests |-> [table \in tablesOf(spliced(queue), log) |-> "pending"],
                 settled |-> "pending"])

\* tryFlushQueue (analytics.js 534-538): the condition is length > 0
tryFlushQueue(queue, online, log) ==
    IF Len(queue) >= batchSize \/ Len(queue) > 0
    THEN flushQueue(queue, online, log)
    ELSE eventQueue' = queue /\ UNCHANGED flushes

\* the tables of a flush whose POST is in flight
pendingTables(flush) == {table \in DOMAIN flush.requests : flush.requests[table] = "pending"}

\* a flush stays in flight while one of its requests is
inFlight(all) == SelectSeq(all, LAMBDA flush : pendingTables(flush) # {})

\* the analytics object with the events n clicks left in the queue, the
\* browser offline unless there is none
AnalyticsWith(n) ==
    /\ eventQueue = [k \in 1..n |-> k]
    /\ isOnline = (n = 0)
    /\ tracked = [k \in 1..n |-> "user_interactions"]
    /\ flushes = <<>>
    /\ delivered = [event \in 1..MaxEvents |-> 0]
    /\ failedRequests = 0

\* the analytics object after its constructor and init (analytics.js 7-10)
AnalyticsIdle == AnalyticsWith(0)

\* the clicks tracked while the browser was offline: one less than a batch
Backlog == batchSize - 1

(***************************************************************************)
(* The favorites manager (class FavoritesManager, favorites.js 2-7, 20-27, *)
(* 76-197, 232-236).  The auth manager is represented by the auth state    *)
(* change it delivered last; window.analytics is absent (analytics is      *)
(* optional, script.js 1286).  A request in flight is [op, productId].     *)
(***************************************************************************)
ProductIds == {"p1", "p2"}

\* error.code of a failed insert: a duplicate key, or a denied request
duplicateKey == "23505"
BackendErrors == {duplicateKey, "42501"}

\* this.authManager.isAuthenticated()
isAuthenticated(event) == event = "SIGNED_IN"

\* addFavorite that keeps the product whatever the backend answered.
afterAddAnyAnswer(favorites, productId, error) == favorites \cup {productId}

\* userFavorites after the answer to the insert of addFavorite
\* (favorites.js 130-140)
afterAdd(favorites, productId, error) ==
    IF error \in {NULL, duplicateKey} THEN favorites \cup {productId} ELSE favorites

\* userFavorites after the answer to the delete of removeFavorite
\* (favorites.js 175-179)
afterRemove(favorites, productId, error) ==
    IF error = NULL THEN favorites \ {productId} ELSE favorites

\* userFavorites after the answer to the select of loadUserFavorites
\* (favorites.js 89-101)
afterLoad(favorites, data, error) == IF error = NULL THEN data ELSE favorites

\* how a call ended
outcome(op, productId, result) == [op |-> op, productId |-> productId, result |-> result]

\* the manager after init for a visitor who is not signed in
\* (favorites.js 2-7, 10-43)
FavoritesIdle ==
    /\ authEvent = "none"
    /\ userFavorites = {}
    /\ backendFavorites = {}
    /\ requests = <<>>
    /\ lastOutcome = outcome("none", NULL, "none")

ServicesIdle == AnalyticsIdle /\ FavoritesIdle

(***************************************************************************)
(* The catalogue: constructor, init/loadData, searches.                    *)
(***************************************************************************)
ScorerIdle ==
    /\ scorerPc = "args"
    /\ searchTokens = <<>>
    /\ relevance = [score |-> <<0, 1>>, matchedTerms |-> 0, totalTerms |-> 0,
                    coverage |-> <<0, 1>>]

FuzzyIdle ==
    /\ fuzzyPc = "args"
    /\ term1 = ""
    /\ term2 = ""
    /\ threshold = defaultThreshold
    /\ matched = FALSE
    /\ distance = 0

SuggestIdle ==
    /\ suggestionSet = <<>>
    /\ suggestions = <<>>

\* the pagination, filter and timer fields as the constructor leaves them
UiConstructed ==
    /\ loadError = NULL
    /\ filters = noFilters
    /\ filteredProducts = <<>>
    /\ displayedProducts = <<>>
    /\ currentPage = 0
    /\ isLoading = FALSE
    /\ pendingLoads = 0
    /\ searchTimeout = NULL
    /\ searchTimers = {}
    /\ searchInput = ""
    /\ searchResultsInfo = noInfo

\* the same fields when init() has loaded allProducts and called applyFilters
UiLoaded ==
    /\ loadError = NULL
    /\ filters = noFilters
    /\ filteredProducts = allProducts
    /\ displayedProducts = <<>>
    /\ currentPage = 0
    /\ isLoading = TRUE
    /\ pendingLoads = 1
    /\ searchTimeout = NULL
    /\ searchTimers = {}
    /\ searchInput = ""
    /\ searchResultsInfo = noInfo

TextIdle ==
    /\ rawText = NULL
    /\ textPc = "args"
    /\ normalizedText = ""
    /\ normalizedTwice = ""
    /\ textTokens = <<>>
    /\ textTokensAgain = <<>>

\* constructor (script.js 2-27)
Init ==
    /\ phase = "constructed"
    /\ allProducts = <<>>
    /\ searchIndex = <<>>
    /\ called = "none"
    /\ lastQuery = NULL
    /\ searchResults = <<>>
    /\ ScorerIdle
    /\ FuzzyIdle
    /\ TextIdle
    /\ SuggestIdle
    /\ ServicesIdle
    /\ UiConstructed

\* loadMoreProducts without the early return of line 941.
loadMoreProductsWhileLoading ==
    isLoading' = TRUE /\ pendingLoads' = pendingLoads + 1

\* loadMoreProducts up to setTimeout (script.js 941-957): nothing while a page
\* load is in progress, else isLoading is set and the callback is scheduled
loadMoreProducts ==
    IF isLoading
    THEN UNCHANGED <<isLoading, pendingLoads>>
    ELSE isLoading' = TRUE /\ pendingLoads' = pendingLoads + 1

\* applyFilters without the reset of the pagination (lines 933-934).
applyFiltersKeepPage(filtered) ==
    /\ filteredProducts' = filtered
    /\ UNCHANGED <<currentPage, displayedProducts>>
    /\ loadMoreProducts

\* applyFilters (script.js 880-938) from the assignment of filteredProducts
\* on; filtered is the value of productsToFilter.filter for the filters the
\* handler leaves behind
applyFilters(filtered) ==
    /\ filteredProducts' = filtered
    /\ currentPage' = 0
    /\ displayedProducts' = <<>>
    /\ loadMoreProducts

\* init (script.js 29-34) on a fetched array: loadData sorts it by confidence
\* and preprocessData builds the index; an exception of buildSearchIndex is
\* caught by loadData, after allProducts was assigned; then applyFilters runs,
\* with the searchQuery '' of the constructor as no listener is attached yet
LoadDataOf(fetched) ==
    /\ phase = "constructed"
    /\ allProducts' = sort(fetched, confidenceComparisons(fetched))
    /\ IF buildSearchIndexThrows(allProducts')
       THEN loadError' = "TypeError" /\ UNCHANGED searchIndex
       ELSE loadError' = NULL /\ searchIndex' = buildSearchIndex(allProducts')
    /\ phase' = "ready"
    /\ UNCHANGED filters
    /\ applyFilters(selectFiltered(allProducts', filters'))
    /\ UNCHANGED <<called, lastQuery, searchResults, scorerVars, fuzzyVars, textVars,
                   suggestVars, serviceVars, searchTimeout, searchTimers, searchInput,
                   searchResultsInfo>>

\* init with one of the small catalogues
LoadData == \E fetched \in Fetched : LoadDataOf(fetched)

\* the fetch fails: the catch block leaves allProducts and searchIndex empty,
\* and init goes on to applyFilters
LoadDataError ==
    /\ phase = "constructed"
    /\ phase' = "ready"
    /\ loadError' = "fetch"
    /\ UNCHANGED <<allProducts, searchIndex, filters>>
    /\ applyFilters(selectFiltered(allProducts', filters'))
    /\ UNCHANGED <<called, lastQuery, searchResults, scorerVars, fuzzyVars, textVars,
                   suggestVars, serviceVars, searchTimeout, searchTimers, searchInput,
                   searchResultsInfo>>

\* a call of performAdvancedSearch(query)
PerformAdvancedSearch ==
    /\ phase = "ready"
    /\ \E query \in Queries :
           /\ lastQuery' = query
           /\ searchResults' = performAdvancedSearch(query)
    /\ called' = "performAdvancedSearch"
    /\ UNCHANGED <<phase, allProducts, searchIndex, scorerVars, fuzzyVars, textVars,
                   suggestVars, serviceVars, uiVars>>

Next == LoadData \/ LoadDataError \/ PerformAdvancedSearch

Spec == Init /\ [][Next]_vars

(***************************************************************************)
(* The scorer on a loaded one-product catalogue and generated query tokens.*)
(***************************************************************************)
InitScore ==
    /\ phase = "ready"
    /\ \E t \in Titles, d \in Descriptions :
           allProducts = <<[id |-> 1, title |-> t, description |-> d,
                            confidence_score |-> undefined]>>
    /\ searchIndex = buildSearchIndex(allProducts)
    /\ called = "none"
    /\ lastQuery = NULL
    /\ searchResults = <<>>
    /\ scorerPc = "args"
    /\ searchTokens \in TokenLists
    /\ relevance = [score |-> <<0, 1>>, matchedTerms |-> 0, totalTerms |-> 0,
                    coverage |-> <<0, 1>>]
    /\ FuzzyIdle
    /\ TextIdle
    /\ SuggestIdle
    /\ ServicesIdle
    /\ UiLoaded

\* a call of calculateRelevanceScore(searchTokens, 0)
CalculateRelevanceScore ==
    /\ scorerPc = "args"
    /\ relevance' = calculateRelevanceScore(searchTokens, 0)
    /\ scorerPc' = "calculateRelevanceScore"
    /\ UNCHANGED <<catalogueVars, searchTokens, fuzzyVars, textVars, suggestVars, serviceVars,
                   uiVars>>

NextScore == CalculateRelevanceScore

SpecScore == InitScore /\ [][NextScore]_vars

(***************************************************************************)
(* The fuzzy matcher on generated arguments.                               *)
(***************************************************************************)
InitFuzzy ==
    /\ phase = "constructed"
    /\ allProducts = <<>>
    /\ searchIndex = <<>>
    /\ called = "none"
    /\ lastQuery = NULL
    /\ searchResults = <<>>
    /\ ScorerIdle
    /\ fuzzyPc = "args"
    /\ term1 \in Terms
    /\ term2 \in Terms
    /\ threshold \in Thresholds
    /\ matched = FALSE
    /\ distance = 0
    /\ TextIdle
    /\ SuggestIdle
    /\ ServicesIdle
    /\ UiConstructed

\* a call of fuzzyMatch(term1, term2, threshold)
FuzzyMatch ==
    /\ fuzzyPc = "args"
    /\ matched' = fuzzyMatch(term1, term2, threshold)
    /\ fuzzyPc' = "fuzzyMatch"
    /\ UNCHANGED <<catalogueVars, scorerVars, term1, term2, threshold, distance,
                   textVars, suggestVars, serviceVars, uiVars>>

\* a call of levenshteinDistance(term1, term2)
LevenshteinDistance ==
    /\ fuzzyPc = "args"
    /\ distance' = levenshteinDistance(term1, term2)
    /\ fuzzyPc' = "levenshteinDistance"
    /\ UNCHANGED <<catalogueVars, scorerVars, term1, term2, threshold, matched,
                   textVars, suggestVars, serviceVars, uiVars>>

NextFuzzy == FuzzyMatch \/ LevenshteinDistance

SpecFuzzy == InitFuzzy /\ [][NextFuzzy]_vars

\* fuzzyMatch and levenshteinDistance called with the default threshold on a
\* word and a typo of it
InitTypo ==
    /\ phase = "constructed"
    /\ allProducts = <<>>
    /\ searchIndex = <<>>
    /\ called = "none"
    /\ lastQuery = NULL
    /\ searchResults = <<>>
    /\ ScorerIdle
    /\ fuzzyPc = "args"
    /\ \E pair \in TypoPairs : term1 = pair[1] /\ term2 = pair[2]
    /\ threshold = defaultThreshold
    /\ matched = FALSE
    /\ distance = 0
    /\ TextIdle
    /\ SuggestIdle
    /\ ServicesIdle
    /\ UiConstructed

SpecTypo == InitTypo /\ [][NextFuzzy]_vars

(***************************************************************************)
(* The catalogue page: init with a catalogue of several pages, the search  *)
(* box with its debounce timer, the filter panels and the load-more button *)
(* with its page-load timer.                                               *)
(***************************************************************************)
\* init with one of the paged catalogues
LoadPagedData == \E fetched \in PagedCatalogues : LoadDataOf(fetched)

\* An event handler that rebuilds the index over the products it was showing.
handlerFrameReindexing ==
    /\ searchIndex' = buildSearchIndex(filteredProducts)
    /\ UNCHANGED <<phase, allProducts, called, lastQuery, searchResults,
                   scorerVars, fuzzyVars, textVars, suggestVars, serviceVars, loadError>>

\* what no event handler assigns
handlerFrame ==
    UNCHANGED <<phase, allProducts, searchIndex, called, lastQuery, searchResults,
                scorerVars, fuzzyVars, textVars, suggestVars, serviceVars, loadError>>

\* clearTimeout that cancels nothing.
clearTimeoutNothing(timers, handle) == timers

\* if (this.searchTimeout) clearTimeout(this.searchTimeout): the callback the
\* handle refers to is no longer scheduled (script.js 725-727)
clearTimeout(timers, handle) == timers \ {handle}

\* input event of the search box: handleSearch(query) replaces the pending
\* debounce callback (script.js 723-756)
HandleSearch ==
    /\ phase = "ready"
    /\ \E query \in TypedQueries :
           /\ searchInput' = query
           /\ searchTimers' = clearTimeout(searchTimers, searchTimeout) \cup {query}
           /\ searchTimeout' = query
    /\ handlerFrame
    /\ UNCHANGED <<filters, filteredProducts, displayedProducts, currentPage, isLoading,
                   pendingLoads, searchResultsInfo>>

\* the debounce callback runs (script.js 740-755)
SearchTimeoutFires ==
    /\ phase = "ready"
    /\ \E query \in searchTimers :
           /\ filters' = [filters EXCEPT !.searchQuery = trim(toLowerCase(query))]
           /\ searchTimers' = searchTimers \ {query}
           /\ searchTimeout' = IF searchTimeout = query THEN NULL ELSE searchTimeout
    /\ handlerFrame
    /\ applyFilters(filterProducts(filters'))
    /\ searchResultsInfo' = searchInfo(filters', Len(filteredProducts'))
    /\ UNCHANGED searchInput

\* click on the clear button or Escape: clearSearch (script.js 758-775)
ClearSearch ==
    /\ phase = "ready"
    /\ filters' = [filters EXCEPT !.searchQuery = ""]
    /\ handlerFrame
    /\ applyFilters(filterProducts(filters'))
    /\ searchResultsInfo' = searchInfo(filters', Len(filteredProducts'))
    /\ searchInput' = ""
    /\ UNCHANGED <<searchTimeout, searchTimers>>

\* saveBrandFilters with the checked brands (script.js 484-510)
SaveBrandFilters ==
    /\ phase = "ready"
    /\ \E brands \in BrandChoices : filters' = [filters EXCEPT !.brands = brands]
    /\ handlerFrame
    /\ applyFilters(filterProducts(filters'))
    /\ UNCHANGED <<searchTimeout, searchTimers, searchInput, searchResultsInfo>>

\* saveCategoryFilters with the checked categories (script.js 512-537)
SaveCategoryFilters ==
    /\ phase = "ready"
    /\ \E categories \in CategoryChoices :
           filters' = [filters EXCEPT !.categories = categories]
    /\ handlerFrame
    /\ applyFilters(filterProducts(filters'))
    /\ UNCHANGED <<searchTimeout, searchTimers, searchInput, searchResultsInfo>>

\* savePriceFilters with the entered range (script.js 539-560)
SavePriceFilters ==
    /\ phase = "ready"
    /\ \E range \in PriceChoices :
           filters' = [filters EXCEPT !.priceMin = range[1], !.priceMax = range[2]]
    /\ handlerFrame
    /\ applyFilters(filterProducts(filters'))
    /\ UNCHANGED <<searchTimeout, searchTimers, searchInput, searchResultsInfo>>

\* saveDynamicAttributeFilter of the colour panel with the checked values
\* (script.js 689-715); renderDynamicAttributeFilters leaves no attribute
\* panel on the page while no category is selected (script.js 579-584)
SaveDynamicAttributeFilter ==
    /\ phase = "ready"
    /\ filters.categories # {}
    /\ \E values \in ColourChoices :
           filters' = [filters EXCEPT !.attributes =
                          {pair \in @ : pair[1] # "color"}
                              \cup {<<"color", value>> : value \in values}]
    /\ handlerFrame
    /\ applyFilters(filterProducts(filters'))
    /\ UNCHANGED <<searchTimeout, searchTimers, searchInput, searchResultsInfo>>

\* clearAllFilters (script.js 1198-1226): updateSearchResultsInfo runs before
\* applyFilters
ClearAllFilters ==
    /\ phase = "ready"
    /\ filters' = noFilters
    /\ handlerFrame
    /\ searchResultsInfo' = searchInfo(filters', Len(filteredProducts))
    /\ applyFilters(filterProducts(filters'))
    /\ searchInput' = ""
    /\ UNCHANGED <<searchTimeout, searchTimers>>

\* hasMoreProducts of the last page load: the load-more button is displayed
\* (script.js 974-975)
hasMoreProducts == currentPage * itemsPerPage < Len(filteredProducts)

\* click on the load-more button (script.js 327-329)
LoadMoreClick ==
    /\ phase = "ready"
    /\ ~isLoading => hasMoreProducts
    /\ loadMoreProducts
    /\ handlerFrame
    /\ UNCHANGED <<filters, filteredProducts, displayedProducts, currentPage,
                   searchTimeout, searchTimers, searchInput, searchResultsInfo>>

\* the page-load callback runs (script.js 959-979)
LoadTimeoutFires ==
    /\ pendingLoads > 0
    /\ displayedProducts' =
           IF currentPage = 0
           THEN slice(filteredProducts, 0, itemsPerPage)
           ELSE displayedProducts
                    \o slice(filteredProducts, currentPage * itemsPerPage,
                             currentPage * itemsPerPage + itemsPerPage)
    /\ currentPage' = currentPage + 1
    /\ isLoading' = FALSE
    /\ pendingLoads' = pendingLoads - 1
    /\ handlerFrame
    /\ UNCHANGED <<filters, filteredProducts, searchTimeout, searchTimers, searchInput,
                   searchResultsInfo>>

NextPage ==
    \/ LoadPagedData
    \/ LoadDataError
    \/ HandleSearch
    \/ SearchTimeoutFires
    \/ ClearSearch
    \/ SaveBrandFilters
    \/ SaveCategoryFilters
    \/ SavePriceFilters
    \/ SaveDynamicAttributeFilter
    \/ ClearAllFilters
    \/ LoadMoreClick
    \/ LoadTimeoutFires

SpecPage == Init /\ [][NextPage]_vars

(***************************************************************************)
(* The suggestion generator on a loaded catalogue.                         *)
(***************************************************************************)
InitSuggest ==
    /\ phase = "ready"
    /\ allProducts \in SuggestCatalogues
    /\ searchIndex = buildSearchIndex(allProducts)
    /\ called = "none"
    /\ lastQuery = NULL
    /\ searchResults = <<>>
    /\ ScorerIdle
    /\ FuzzyIdle
    /\ TextIdle
    /\ SuggestIdle
    /\ ServicesIdle
    /\ UiLoaded

\* a call of generateSearchSuggestions(query)
GenerateSearchSuggestions ==
    /\ phase = "ready"
    /\ \E query \in SuggestQueries :
           /\ lastQuery' = query
           /\ suggestionSet' = collectSuggestions(query)
           /\ suggestions' = generateSearchSuggestions(query)
    /\ called' = "generateSearchSuggestions"
    /\ UNCHANGED <<phase, allProducts, searchIndex, searchResults, scorerVars,
                   fuzzyVars, textVars, uiVars, serviceVars>>

NextSuggest == GenerateSearchSuggestions

SpecSuggest == InitSuggest /\ [][NextSuggest]_vars

(***************************************************************************)
(* The normaliser, the tokenizer and the index builder on generated text.  *)
(***************************************************************************)
InitText ==
    /\ phase = "constructed"
    /\ allProducts = <<>>
    /\ searchIndex = <<>>
    /\ called = "none"
    /\ lastQuery = NULL
    /\ searchResults = <<>>
    /\ ScorerIdle
    /\ FuzzyIdle
    /\ rawText \in RawTexts
    /\ textPc = "args"
    /\ normalizedText = ""
    /\ normalizedTwice = ""
    /\ textTokens = <<>>
    /\ textTokensAgain = <<>>
    /\ SuggestIdle
    /\ ServicesIdle
    /\ UiConstructed

\* a call of normalizeText(rawText)
NormalizeText ==
    /\ textPc = "args"
    /\ IF throwsTypeError(rawText)
       THEN textPc' = "TypeError" /\ UNCHANGED normalizedText
       ELSE textPc' = "normalizeText" /\ normalizedText' = normalizeText(rawText)
    /\ UNCHANGED <<catalogueVars, scorerVars, fuzzyVars, suggestVars, serviceVars, uiVars, rawText, normalizedTwice,
                   textTokens, textTokensAgain>>

\* a call of normalizeText on the value the first call returned
NormalizeTextAgain ==
    /\ textPc = "normalizeText"
    /\ normalizedTwice' = normalizeText(normalizedText)
    /\ textPc' = "normalizeTextAgain"
    /\ UNCHANGED <<catalogueVars, scorerVars, fuzzyVars, suggestVars, serviceVars, uiVars, rawText, normalizedText,
                   textTokens, textTokensAgain>>

\* a call of tokenize(rawText)
Tokenize ==
    /\ textPc = "args"
    /\ IF throwsTypeError(rawText)
       THEN textPc' = "TypeError" /\ UNCHANGED textTokens
       ELSE textPc' = "tokenize" /\ textTokens' = tokenize(rawText)
    /\ UNCHANGED <<catalogueVars, scorerVars, fuzzyVars, suggestVars, serviceVars, uiVars, rawText, normalizedText,
                   normalizedTwice, textTokensAgain>>

\* a second call of tokenize(rawText)
TokenizeAgain ==
    /\ textPc = "tokenize"
    /\ textTokensAgain' = tokenize(rawText)
    /\ textPc' = "tokenizeAgain"
    /\ UNCHANGED <<catalogueVars, scorerVars, fuzzyVars, suggestVars, serviceVars, uiVars, rawText, normalizedText,
                   normalizedTwice, textTokens>>

\* preprocessData -> buildSearchIndex over one product whose title is rawText
BuildSearchIndex ==
    /\ textPc = "args"
    /\ allProducts' = <<[id |-> 1, title |-> rawText, description |-> NULL,
                         confidence_score |-> undefined]>>
    /\ IF buildSearchIndexThrows(allProducts')
       THEN textPc' = "TypeError" /\ UNCHANGED searchIndex
       ELSE textPc' = "buildSearchIndex" /\ searchIndex' = buildSearchIndex(allProducts')
    /\ UNCHANGED <<phase, called, lastQuery, searchResults, scorerVars, fuzzyVars,
                   suggestVars, serviceVars, uiVars, rawText, normalizedText, normalizedTwice, textTokens, textTokensAgain>>

NextText ==
    NormalizeText \/ NormalizeTextAgain \/ Tokenize \/ TokenizeAgain \/ BuildSearchIndex

SpecText == InitText /\ [][NextText]_vars

(***************************************************************************)
(* The analytics queue: tracked events, the flush timer, the online and    *)
(* offline events and the answers to the requests of the flushes.          *)
(***************************************************************************)
\* what no method of UserAnalytics assigns
analyticsFrame ==
    UNCHANGED <<catalogueVars, scorerVars, fuzzyVars, textVars, suggestVars, uiVars,
                favoritesVars>>

\* trackEvent (analytics.js 256-277): one event for user_interactions
TrackEvent ==
    /\ Len(tracked) < MaxEvents
    /\ Len(flushes) < MaxFlushes
    /\ tracked' = Append(tracked, "user_interactions")
    /\ tryFlushQueue(Append(eventQueue, Len(tracked) + 1), isOnline, tracked')
    /\ UNCHANGED <<isOnline, delivered, failedRequests>>
    /\ analyticsFrame

\* trackSearch (analytics.js 298-328): one event for search_events and, by
\* trackUserBehaviorPattern (574-588), one for user_behavior_patterns
TrackSearch ==
    /\ Len(tracked) + 2 <= MaxEvents
    /\ Len(SelectSeq(tracked, LAMBDA table : table = "search_events")) < MaxSearches
    /\ Len(flushes) < MaxFlushes
    /\ tracked' = tracked \o <<"search_events", "user_behavior_patterns">>
    /\ tryFlushQueue(eventQueue \o <<Len(tracked) + 1, Len(tracked) + 2>>, isOnline,
                     tracked')
    /\ UNCHANGED <<isOnline, delivered, failedRequests>>
    /\ analyticsFrame

\* the interval of startAutoFlush (analytics.js 528-532)
AutoFlush ==
    /\ Len(flushes) < MaxFlushes
    /\ tryFlushQueue(eventQueue, isOnline, tracked)
    /\ UNCHANGED <<isOnline, tracked, delivered, failedRequests>>
    /\ analyticsFrame

\* the online listener (analytics.js 497-500)
Online ==
    /\ Len(flushes) < MaxFlushes
    /\ isOnline' = TRUE
    /\ flushQueue(eventQueue, TRUE, tracked)
    /\ UNCHANGED <<tracked, delivered, failedRequests>>
    /\ analyticsFrame

\* the offline listener (analytics.js 502-504)
Offline ==
    /\ isOnline' = FALSE
    /\ UNCHANGED <<eventQueue, tracked, flushes, delivered, failedRequests>>
    /\ analyticsFrame

\* flushes with flush k replaced
withFlush(k, flush) == [flushes EXCEPT ![k] = flush]

\* the POST of one table of a flush succeeds: the backend stores its events;
\* Promise.all resolves with the last POST of a flush (analytics.js 556-564)
RequestSucceeds ==
    /\ \E k \in 1..Len(flushes) : \E table \in pendingTables(flushes[k]) :
           /\ delivered' =
                  [event \in DOMAIN delivered |->
                      IF \E i \in 1..Len(flushes[k].eventsToSend) :
                             /\ flushes[k].eventsToSend[i] = event
                             /\ tracked[event] = table
                      THEN delivered[event] + 1
                      ELSE delivered[event]]
           /\ flushes' = inFlight(withFlush(k,
                  [flushes[k] EXCEPT !.requests[table] = "ok"]))
    /\ UNCHANGED <<eventQueue, isOnline, tracked, failedRequests>>
    /\ analyticsFrame

\* the POST of one table of a flush fails: Promise.all rejects with the first
\* failure and the catch block puts the batch back (analytics.js 566-571);
\* the other requests of the flush stay in flight
RequestFails ==
    /\ failedRequests < MaxFailures
    /\ \E k \in 1..Len(flushes) : \E table \in pendingTables(flushes[k]) :
           /\ eventQueue' =
                  IF flushes[k].settled = "pending"
                  THEN requeue(eventQueue, flushes[k].eventsToSend)
                  ELSE eventQueue
           /\ flushes' = inFlight(withFlush(k,
                  [flushes[k] EXCEPT !.requests[table] = "failed",
                                     !.settled = "rejected"]))
    /\ failedRequests' = failedRequests + 1
    /\ UNCHANGED <<isOnline, tracked, delivered>>
    /\ analyticsFrame

NextAnalytics ==
    \/ TrackEvent
    \/ TrackSearch
    \/ AutoFlush
    \/ Online
    \/ Offline
    \/ RequestSucceeds
    \/ RequestFails

\* the page is loading, offline, with the backlog in the queue
InitAnalytics ==
    /\ phase = "constructed"
    /\ allProducts = <<>>
    /\ searchIndex = <<>>
    /\ called = "none"
    /\ lastQuery = NULL
    /\ searchResults = <<>>
    /\ ScorerIdle
    /\ FuzzyIdle
    /\ TextIdle
    /\ SuggestIdle
    /\ UiConstructed
    /\ AnalyticsWith(Backlog)
    /\ FavoritesIdle

SpecAnalytics == InitAnalytics /\ [][NextAnalytics]_vars

(***************************************************************************)
(* The favorites manager: the auth state changes, the calls of the         *)
(* favorite buttons and the answers of the backend.                        *)
(***************************************************************************)
\* what no method of FavoritesManager assigns
favoritesFrame ==
    UNCHANGED <<catalogueVars, scorerVars, fuzzyVars, textVars, suggestVars, uiVars,
                analyticsVars>>

\* the listener of init on SIGNED_IN (favorites.js 21-23): loadUserFavorites
\* sends its select (76-87)
SignedIn ==
    /\ Len(requests) < MaxRequests
    /\ authEvent' = "SIGNED_IN"
    /\ requests' = Append(requests, [op |-> "load", productId |-> NULL])
    /\ UNCHANGED <<userFavorites, backendFavorites, lastOutcome>>
    /\ favoritesFrame

\* the listener of init on SIGNED_OUT (favorites.js 24-26): clearUserFavorites
\* (232-236)
SignedOut ==
    /\ authEvent' = "SIGNED_OUT"
    /\ userFavorites' = {}
    /\ UNCHANGED <<backendFavorites, requests, lastOutcome>>
    /\ favoritesFrame

\* a call of addFavorite or removeFavorite up to its await (favorites.js
\* 112-128, 160-173): it throws when the user is not authenticated, else it
\* sends its request
callFavorite(op, productId) ==
    /\ IF isAuthenticated(authEvent)
       THEN /\ Len(requests) < MaxRequests
            /\ requests' = Append(requests, [op |-> op, productId |-> productId])
            /\ UNCHANGED lastOutcome
       ELSE /\ lastOutcome' = outcome(op, productId, "not authenticated")
            /\ UNCHANGED requests
    /\ UNCHANGED <<authEvent, userFavorites, backendFavorites>>
    /\ favoritesFrame

AddFavorite == \E productId \in ProductIds : callFavorite("add", productId)

RemoveFavorite == \E productId \in ProductIds : callFavorite("remove", productId)

\* requests without request k
answered(k) == SubSeq(requests, 1, k - 1) \o SubSeq(requests, k + 1, Len(requests))

\* the backend answers the insert of addFavorite (favorites.js 130-155): the
\* row is stored, or it exists already, or the request is denied
AddAnswered ==
    /\ \E k \in 1..Len(requests) : \E error \in {NULL} \cup BackendErrors :
           LET productId == requests[k].productId IN
           /\ requests[k].op = "add"
           /\ error = NULL => productId \notin backendFavorites
           /\ error = duplicateKey => productId \in backendFavorites
           /\ backendFavorites' =
                  IF error = NULL THEN backendFavorites \cup {productId}
                  ELSE backendFavorites
           /\ userFavorites' = afterAdd(userFavorites, productId, error)
           /\ lastOutcome' =
                  outcome("add", productId,
                          IF error = NULL THEN "added"
                          ELSE IF error = duplicateKey THEN "already there"
                          ELSE "failed")
           /\ requests' = answered(k)
    /\ UNCHANGED authEvent
    /\ favoritesFrame

\* the backend answers the delete of removeFavorite (favorites.js 175-194)
RemoveAnswered ==
    /\ \E k \in 1..Len(requests) : \E error \in {NULL} \cup (BackendErrors \ {duplicateKey}) :
           LET productId == requests[k].productId IN
           /\ requests[k].op = "remove"
           /\ backendFavorites' =
                  IF error = NULL THEN backendFavorites \ {productId}
                  ELSE backendFavorites
           /\ userFavorites' = afterRemove(userFavorites, productId, error)
           /\ lastOutcome' =
                  outcome("remove", productId,
                          IF error = NULL THEN "removed" ELSE "failed")
           /\ requests' = answered(k)
    /\ UNCHANGED authEvent
    /\ favoritesFrame

\* the backend answers the select of loadUserFavorites (favorites.js 89-109)
LoadAnswered ==
    /\ \E k \in 1..Len(requests) : \E error \in {NULL} \cup (BackendErrors \ {duplicateKey}) :
           /\ requests[k].op = "load"
           /\ userFavorites' = afterLoad(userFavorites, backendFavorites, error)
           /\ lastOutcome' =
                  outcome("load", NULL, IF error = NULL THEN "loaded" ELSE "failed")
           /\ requests' = answered(k)
    /\ UNCHANGED <<authEvent, backendFavorites>>
    /\ favoritesFrame

NextFavorites ==
    \/ SignedIn
    \/ SignedOut
    \/ AddFavorite
    \/ RemoveFavorite
    \/ AddAnswered
    \/ RemoveAnswered
    \/ LoadAnswered

SpecFavorites == Init /\ [][NextFavorites]_vars

(***************************************************************************)
(* Properties of the search orchestrator (specification Spec).             *)
(***************************************************************************)
Searched == called = "performAdvancedSearch"

\* The tokens of the query of the last search.
QueryTokens == tokenize(lastQuery)

\* The position in allProducts of a product of the catalogue.
PositionOf(product) == CHOOSE k \in 1..Len(allProducts) : allProducts[k] = product

\* C1: a search whose query is null, empty, whitespace-only or tokenizes to no
\* token returns one result per product, in allProducts order, each with score
\* 0; the result is as long as allProducts.
C1_EmptyQueryPassThrough ==
    (Searched /\ (lastQuery = NULL \/ QueryTokens = <<>>)) =>
        /\ Len(searchResults) = Len(allProducts)
        /\ \A k \in 1..Len(allProducts) :
               /\ searchResults[k].product = allProducts[k]
               /\ searchResults[k].score = <<0, 1>>

\* A stop-word-only query was searched on a catalogue of several products.
C1_Witness ==
    /\ Searched
    /\ lastQuery = "the of"
    /\ Len(allProducts) >= 2
    /\ Len(searchResults) = Len(allProducts)

\* The positions of the index entries that match at least one query token.
MatchingPositions ==
    {k \in 1..Len(searchIndex) :
        calculateRelevanceScore(QueryTokens, k - 1).matchedTerms > 0}

\* No title or description token of the entry exactly or fuzzily matches a
\* query token and neither normalized text contains a query token.
NothingMatches(entry) ==
    \A q \in 1..Len(QueryTokens) :
        /\ \A t \in 1..Len(entry.titleTokens) :
               ~fuzzyMatch(QueryTokens[q], entry.titleTokens[t], defaultThreshold)
        /\ \A d \in 1..Len(entry.descriptionTokens) :
               ~fuzzyMatch(QueryTokens[q], entry.descriptionTokens[d], defaultThreshold)
        /\ ~includes(entry.normalizedTitle, QueryTokens[q])
        /\ ~includes(entry.normalizedDescription, QueryTokens[q])

\* C2: for a query with at least one token the result holds exactly the
\* products whose entry has matchedTerms > 0, each once; when nothing matches
\* anywhere the result is empty.
C2_ExactlyTheMatchingProducts ==
    (Searched /\ lastQuery # NULL /\ QueryTokens # <<>>) =>
        /\ Len(searchResults) = Cardinality(MatchingPositions)
        /\ \A k \in MatchingPositions :
               \E r \in 1..Len(searchResults) : searchResults[r].product = allProducts[k]
        /\ \A r \in 1..Len(searchResults) :
               \E k \in MatchingPositions : searchResults[r].product = allProducts[k]
        /\ (\A k \in 1..Len(searchIndex) : NothingMatches(searchIndex[k]))
               => searchResults = <<>>

\* A search with tokens that retains some products and drops others.
C2_Witness ==
    /\ Searched
    /\ lastQuery = "floral"
    /\ Len(searchResults) > 0
    /\ Len(searchResults) < Len(allProducts)

\* Result a may not follow result b: a is ahead on the first key that differs.
RankedBefore(a, b) ==
    \/ RatLess(b.score, a.score)
    \/ /\ a.score = b.score
       /\ RatLess(b.coverage, a.coverage)
    \/ /\ a.score = b.score
       /\ a.coverage = b.coverage
       /\ RatLess(confidenceOrZero(b.product), confidenceOrZero(a.product))

FullTie(a, b) ==
    /\ a.score = b.score
    /\ a.coverage = b.coverage
    /\ confidenceOrZero(a.product) = confidenceOrZero(b.product)

\* C3: for a query with at least one token the results are ordered by score,
\* then coverage, then confidence_score (missing as 0), all descending, and
\* results equal on all three keep the order of their products in the index.
C3_ThreeLevelStableOrder ==
    (Searched /\ lastQuery # NULL /\ QueryTokens # <<>>) =>
        \A i, j \in 1..Len(searchResults) :
            i < j =>
                \/ RankedBefore(searchResults[i], searchResults[j])
                \/ /\ FullTie(searchResults[i], searchResults[j])
                   /\ PositionOf(searchResults[i].product)
                          < PositionOf(searchResults[j].product)

\* A search whose results hold two different products tied on all three keys.
C3_Witness ==
    /\ Searched
    /\ lastQuery # NULL
    /\ QueryTokens # <<>>
    /\ \E i, j \in 1..Len(searchResults) :
           /\ i < j
           /\ FullTie(searchResults[i], searchResults[j])
           /\ searchResults[i].product # searchResults[j].product

(***************************************************************************)
(* Properties of the relevance scorer (specification SpecScore).           *)
(***************************************************************************)
Scored == scorerPc = "calculateRelevanceScore"

\* The index entry the scorer was called on.
ScoredEntry == searchIndex[1]

Indicator(b) == IF b THEN 1 ELSE 0

\* How many tokens of the sequence fuzzy-match q at the default threshold.
FuzzyHits(q, tokens) ==
    Cardinality({k \in 1..Len(tokens) : fuzzyMatch(q, tokens[k], defaultThreshold)})

IsMember(q, tokens) == q \in {tokens[k] : k \in 1..Len(tokens)}

\* Twice the per-term contribution the claim describes (in units of 0.5).
ClaimedHalves(q, entry) ==
      6 * Indicator(IsMember(q, entry.titleTokens))
    + 4 * FuzzyHits(q, entry.titleTokens)
    + 2 * Indicator(IsMember(q, entry.descriptionTokens))
    + FuzzyHits(q, entry.descriptionTokens)
    + 2 * Indicator(includes(entry.normalizedTitle, q))
    + Indicator(includes(entry.normalizedDescription, q))

RECURSIVE SumClaimedHalves(_, _, _)
SumClaimedHalves(tokens, entry, k) ==
    IF k > Len(tokens) THEN 0
    ELSE ClaimedHalves(tokens[k], entry) + SumClaimedHalves(tokens, entry, k + 1)

\* The positions of the query tokens that trigger at least one bonus.
TriggeringPositions(tokens, entry) ==
    {k \in 1..Len(tokens) : ClaimedHalves(tokens[k], entry) > 0}

\* C4: the score is the sum over the query tokens of 3 (exact title), 2 per
\* fuzzy-matching title token, 1 (exact description), 0.5 per fuzzy-matching
\* description token, 1 (normalized title contains it), 0.5 (normalized
\* description contains it), plus 2 * matchedTerms / totalTerms; a token
\* identical to the query token counts in the fuzzy loops too.
C4_ScoreFormula ==
    Scored =>
        LET n == Len(searchTokens)
            m == Cardinality(TriggeringPositions(searchTokens, ScoredEntry))
        IN  relevance.score
                = Rat(n * SumClaimedHalves(searchTokens, ScoredEntry, 1) + 4 * m, 2 * n)

\* The scorer ran on a query token that is also a title token: exact 3, fuzzy
\* self-match 2, title containment 1, coverage 2.
C4_Witness ==
    /\ Scored
    /\ searchTokens = <<"dress">>
    /\ ScoredEntry.titleTokens = <<"dress">>
    /\ ScoredEntry.descriptionTokens = <<>>
    /\ relevance.score = <<8, 1>>

\* The single query token equals exactly one title token and occurs nowhere
\* else: no other title token and no description token fuzzy-matches it and
\* the normalized description does not contain it.
OnlyExactTitleOccurrence ==
    /\ Len(searchTokens) = 1
    /\ Cardinality({k \in 1..Len(ScoredEntry.titleTokens) :
                       ScoredEntry.titleTokens[k] = searchTokens[1]}) = 1
    /\ \A k \in 1..Len(ScoredEntry.titleTokens) :
           ScoredEntry.titleTokens[k] # searchTokens[1]
               => ~fuzzyMatch(searchTokens[1], ScoredEntry.titleTokens[k], defaultThreshold)
    /\ \A k \in 1..Len(ScoredEntry.descriptionTokens) :
           ~fuzzyMatch(searchTokens[1], ScoredEntry.descriptionTokens[k], defaultThreshold)
    /\ ~includes(ScoredEntry.normalizedDescription, searchTokens[1])

\* C5 as stated: a single query token equal to exactly one title token and
\* present nowhere else scores exactly 5.0 with matchedTerms 1.
C5_ScoreIsFive ==
    (Scored /\ OnlyExactTitleOccurrence) =>
        /\ relevance.matchedTerms = 1
        /\ relevance.score = <<5, 1>>

\* C5 amended: a single query token equal to exactly one title token and
\* present nowhere else scores exactly 8.0 with matchedTerms 1: 3 exact, 2 for
\* the fuzzy match of the token with itself, 1 for the normalized title
\* containing it, 2 coverage bonus.
C5_ScoreIsEight ==
    (Scored /\ OnlyExactTitleOccurrence) =>
        /\ relevance.matchedTerms = 1
        /\ relevance.score = <<8, 1>>

\* The scorer ran on such a query and a title of two tokens.
C5_Witness ==
    /\ Scored
    /\ OnlyExactTitleOccurrence
    /\ Len(ScoredEntry.titleTokens) = 2
    /\ relevance.matchedTerms = 1

\* C7: totalTerms is the number of query tokens, matchedTerms counts each
\* token that triggers a bonus once and lies in 0..totalTerms, coverage is
\* matchedTerms / totalTerms in [0, 1]; matchedTerms = 0 gives score 0 and
\* coverage 0, matchedTerms > 0 gives score > 0.
C7_RelevanceShape ==
    Scored =>
        /\ relevance.totalTerms = Len(searchTokens)
        /\ relevance.matchedTerms
               = Cardinality(TriggeringPositions(searchTokens, ScoredEntry))
        /\ relevance.matchedTerms \in 0..relevance.totalTerms
        /\ relevance.coverage[1] * relevance.totalTerms
               = relevance.matchedTerms * relevance.coverage[2]
        /\ relevance.coverage[2] > 0
        /\ RatGeq(relevance.coverage, <<0, 1>>)
        /\ RatGeq(<<1, 1>>, relevance.coverage)
        /\ (relevance.matchedTerms = 0 =>
               relevance.score = <<0, 1>> /\ relevance.coverage = <<0, 1>>)
        /\ (relevance.matchedTerms > 0 => RatLess(<<0, 1>>, relevance.score))

\* The scorer ran on a query that repeats a token, each occurrence of which
\* triggers several bonuses (exact, two fuzzy, containment).
C7_Witness ==
    /\ Scored
    /\ searchTokens = <<"dress", "dress">>
    /\ ScoredEntry.titleTokens = <<"dress", "dresses">>
    /\ relevance.matchedTerms = 2
    /\ relevance.totalTerms = 2

(***************************************************************************)
(* Coverage monotonicity (specification Spec).                             *)
(***************************************************************************)
\* Entry b matches one query term more than entry a, and every term a matches
\* has the same per-term contribution in b.
SameProfileOneMore(a, b) ==
    /\ calculateRelevanceScore(QueryTokens, b - 1).matchedTerms
           = calculateRelevanceScore(QueryTokens, a - 1).matchedTerms + 1
    /\ \A k \in 1..Len(QueryTokens) :
           termRelevance(QueryTokens[k], searchIndex[a]).termMatched
               => termRelevance(QueryTokens[k], searchIndex[b])
                      = termRelevance(QueryTokens[k], searchIndex[a])

\* Where the product at position k of allProducts stands in the results.
ResultRanks(k) ==
    {r \in 1..Len(searchResults) : searchResults[r].product = allProducts[k]}

\* C6: for the same query tokens, an entry matching k+1 terms with the same
\* per-term contributions as an entry matching k terms scores strictly higher
\* and is never ranked behind it.
C6_CoverageMonotonicity ==
    (Searched /\ lastQuery # NULL /\ QueryTokens # <<>>) =>
        \A a, b \in 1..Len(searchIndex) :
            SameProfileOneMore(a, b) =>
                /\ RatLess(calculateRelevanceScore(QueryTokens, a - 1).score,
                           calculateRelevanceScore(QueryTokens, b - 1).score)
                /\ \A ra \in ResultRanks(a), rb \in ResultRanks(b) : rb < ra

\* A search ranked two such entries, the one with fewer matches first in the
\* index.
C6_Witness ==
    /\ Searched
    /\ lastQuery # NULL
    /\ QueryTokens # <<>>
    /\ \E a, b \in 1..Len(searchIndex) :
           /\ a < b
           /\ SameProfileOneMore(a, b)
           /\ calculateRelevanceScore(QueryTokens, a - 1).matchedTerms >= 1
           /\ ResultRanks(a) # {}
           /\ ResultRanks(b) # {}

(***************************************************************************)
(* Properties of the fuzzy matcher (specification SpecFuzzy).              *)
(***************************************************************************)
\* The standard edit distance: the least number of unit-cost insertions,
\* deletions and substitutions that turn a into b.
RECURSIVE EditDistance(_, _)
EditDistance(a, b) ==
    IF a = "" THEN Len(b)
    ELSE IF b = "" THEN Len(a)
    ELSE LET ra == SubSeq(a, 2, Len(a))
             rb == SubSeq(b, 2, Len(b))
         IN  Min(EditDistance(ra, b) + 1,
                 Min(EditDistance(a, rb) + 1,
                     EditDistance(ra, rb) + Indicator(SubSeq(a, 1, 1) # SubSeq(b, 1, 1))))

\* sub occurs in s as a contiguous piece.
Contains(s, sub) ==
    \E i \in 1..(Len(s) + 1), j \in 0..Len(s) : SubSeq(s, i, j) = sub

\* C8: fuzzyMatch is symmetric in its two terms, at every threshold.
C8_FuzzyMatchSymmetric ==
    fuzzyPc = "fuzzyMatch" => matched = fuzzyMatch(term2, term1, threshold)

\* fuzzyMatch accepted a term and a longer term that contains it.
C8_Witness ==
    /\ fuzzyPc = "fuzzyMatch"
    /\ term1 = "dress"
    /\ term2 = "dresses"
    /\ matched

\* C9: fuzzyMatch is true for equal terms; else false when a term is shorter
\* than 3; else true when one term contains the other; else true exactly when
\* 1 - editDistance / max length >= threshold, equality included.
C9_DecisionProcedure ==
    fuzzyPc = "fuzzyMatch" =>
        LET long == Max(Len(term1), Len(term2)) IN
        /\ term1 = term2 => matched
        /\ (term1 # term2 /\ (Len(term1) < 3 \/ Len(term2) < 3)) => ~matched
        /\ (term1 # term2 /\ Len(term1) >= 3 /\ Len(term2) >= 3
                /\ (Contains(term1, term2) \/ Contains(term2, term1))) => matched
        /\ (term1 # term2 /\ Len(term1) >= 3 /\ Len(term2) >= 3
                /\ ~Contains(term1, term2) /\ ~Contains(term2, term1)) =>
               (matched <=>
                    (long - EditDistance(term1, term2)) * threshold[2]
                        >= threshold[1] * long)

\* fuzzyMatch accepted two terms whose similarity equals the threshold:
\* 1 - 1/5 = 0.8.
C9_Witness ==
    /\ fuzzyPc = "fuzzyMatch"
    /\ term1 = "dress"
    /\ term2 = "drass"
    /\ threshold = <<4, 5>>
    /\ matched

\* C10: levenshteinDistance is the standard edit distance, also when a string
\* is empty; levenshteinDistance("kitten", "sitting") = 3.
C10_LevenshteinIsEditDistance ==
    fuzzyPc = "levenshteinDistance" =>
        /\ distance = EditDistance(term1, term2)
        /\ (term1 = "kitten" /\ term2 = "sitting") => distance = 3

\* levenshteinDistance ran on "kitten" and "sitting".
C10_Witness ==
    /\ fuzzyPc = "levenshteinDistance"
    /\ term1 = "kitten"
    /\ term2 = "sitting"
    /\ distance = 3

WellFormedToken(token) ==
    /\ Len(token) > 1
    /\ token \notin stopWords
    /\ \A k \in 0..(Len(token) - 1) :
           LET c == charAt(token, k) IN
           /\ ~InString(c, UpperCase)
           /\ ~IsSpace(c)
           /\ IsWordChar(c)
           /\ c \notin {"-", "_"}

AllWellFormed(tokenSeq) == \A k \in 1..Len(tokenSeq) : WellFormedToken(tokenSeq[k])

\* C12: every token tokenize returns, and so every titleToken, descriptionToken
\* and allToken of an index entry, is well-formed; tokenize(null) and
\* tokenize('') return the empty sequence.
C12_TokensWellFormed ==
    /\ textPc \in {"tokenize", "tokenizeAgain"} =>
           /\ AllWellFormed(textTokens)
           /\ rawText \in {NULL, ""} => textTokens = <<>>
    /\ \A k \in 1..Len(searchIndex) :
           /\ AllWellFormed(searchIndex[k].titleTokens)
           /\ AllWellFormed(searchIndex[k].descriptionTokens)
           /\ AllWellFormed(searchIndex[k].allTokens)

\* tokenize has dropped the stop word "the" and kept four lower-case tokens
\* of a text with a tab, a hyphen, an underscore, capitals and punctuation.
C12_Witness ==
    /\ textPc = "tokenize"
    /\ rawText = "The\tRed-Hot  SILK_dress!"
    /\ textTokens = <<"red", "hot", "silk", "dress">>

\* tokenize(null) has returned the empty sequence.
C12_WitnessNull ==
    /\ textPc = "tokenize"
    /\ rawText = NULL
    /\ textTokens = <<>>

(***************************************************************************)
(* Properties of the index builder (specification Spec).                   *)
(***************************************************************************)
\* The entry buildSearchIndex derives from the text of one product.
EntryOf(product, k) ==
    [productIndex          |-> k - 1,
     titleTokens           |-> tokenize(product.title),
     descriptionTokens     |-> tokenize(product.description),
     normalizedTitle       |-> normalizeText(product.title),
     normalizedDescription |-> normalizeText(product.description),
     allTokens             |-> tokenize(orEmpty(product.title))
                                   \o tokenize(orEmpty(product.description))]

\* C13: whenever a search can run, the index has one entry per product, entry
\* i has productIndex i and is derived from the text of allProducts[i], and
\* the product of every search result is the product at the position whose
\* entry produced the result's relevance.
C13_IndexAlignedWithProducts ==
    phase = "ready" =>
        /\ Len(searchIndex) = Len(allProducts)
        /\ \A k \in 1..Len(searchIndex) :
               /\ searchIndex[k].productIndex = k - 1
               /\ searchIndex[k] = EntryOf(allProducts[k], k)
        /\ Searched /\ QueryTokens # <<>> =>
               \A r \in 1..Len(searchResults) :
                   \E k \in 1..Len(allProducts) :
                       /\ searchResults[r].product = allProducts[k]
                       /\ searchResults[r].score
                              = calculateRelevanceScore(QueryTokens, k - 1).score
                       /\ searchResults[r].coverage
                              = calculateRelevanceScore(QueryTokens, k - 1).coverage

\* C14: buildSearchIndex never throws: whenever the fetch succeeded, index
\* building has completed for all products, and a title or description that
\* is absent, null or empty has given empty tokens and an empty normalized
\* string.
C14_IndexBuildNeverThrows ==
    phase = "ready" /\ loadError # "fetch" =>
        /\ loadError = NULL
        /\ Len(searchIndex) = Len(allProducts)
        /\ \A k \in 1..Len(searchIndex) :
               /\ allProducts[k].title \in {NULL, ""} =>
                      /\ searchIndex[k].titleTokens = <<>>
                      /\ searchIndex[k].normalizedTitle = ""
               /\ allProducts[k].description \in {NULL, ""} =>
                      /\ searchIndex[k].descriptionTokens = <<>>
                      /\ searchIndex[k].normalizedDescription = ""

(***************************************************************************)
(* Properties of the suggestion generator (specification SpecSuggest).     *)
(***************************************************************************)
Suggested == called = "generateSearchSuggestions"

\* the allTokens of all index entries, in index order
RECURSIVE IndexTokensFrom(_)
IndexTokensFrom(k) ==
    IF k > Len(searchIndex) THEN <<>>
    ELSE searchIndex[k].allTokens \o IndexTokensFrom(k + 1)

IndexTokens == IndexTokensFrom(1)

ElementsOf(seq) == {seq[k] : k \in 1..Len(seq)}

\* The candidate c qualifies for the query token q.
Qualifies(q, c) ==
    /\ c # q
    /\ \/ fuzzyMatch(q, c, <<7, 10>>)
       \/ Len(c) > Len(q) /\ Contains(c, q)

QualifiesForSome(c) == \E q \in ElementsOf(QueryTokens) : Qualifies(q, c)

\* C16: before truncation the suggestions are exactly the index tokens that
\* qualify for some query token.
C16_SuggestionSet ==
    Suggested =>
        ElementsOf(suggestionSet) = {c \in ElementsOf(IndexTokens) : QualifiesForSome(c)}

\* "milk" is suggested for "silk" (similarity 0.75), and for "re" the longer
\* tokens that contain it.
C16_Witness ==
    /\ Suggested
    /\ \/ lastQuery = "silk" /\ "milk" \in ElementsOf(suggestionSet)
       \/ lastQuery = "re" /\ "red" \in ElementsOf(suggestionSet)
    /\ "silk" \in ElementsOf(IndexTokens)

\* C17 as stated: no returned suggestion is identical to a token of the
\* query, for single-token and multi-token queries.
C17_NoQueryTokenSuggested ==
    Suggested => ElementsOf(suggestions) \cap ElementsOf(QueryTokens) = {}

\* C17: for a query of one token no returned suggestion is that token; for
\* any query every returned suggestion differs from a query token that
\* suggests it, and it may be identical to another query token.
C17_NoSelfSuggestion ==
    Suggested =>
        /\ Len(QueryTokens) = 1 => QueryTokens[1] \notin ElementsOf(suggestions)
        /\ \A s \in ElementsOf(suggestions) :
               \E q \in ElementsOf(QueryTokens) : s # q /\ Qualifies(q, s)

\* Suggestions were returned for "drss" over an index that holds the token
\* "drss".
C17_Witness ==
    /\ Suggested
    /\ lastQuery = "drss"
    /\ "drss" \in ElementsOf(IndexTokens)
    /\ suggestions # <<>>

\* the qualifying index tokens in scan order, each at its first occurrence
FirstDiscoveries ==
    LET scanned == IndexTokens IN
    LET firstQualifying ==
            {k \in 1..Len(scanned) :
                /\ QualifiesForSome(scanned[k])
                /\ \A j \in 1..(k - 1) : scanned[j] # scanned[k]}
    IN  SelectSeq([k \in 1..Len(scanned) |-> IF k \in firstQualifying THEN scanned[k] ELSE NULL],
                  LAMBDA c : c # NULL)

\* C18: at most 5 suggestions are returned, pairwise distinct, and they are
\* the first 5 discoveries of the scan over the index entries in index order
\* and over each entry's allTokens in sequence order.
C18_FirstFiveDiscoveries ==
    Suggested =>
        /\ Len(suggestions) <= 5
        /\ \A i, j \in 1..Len(suggestions) : i # j => suggestions[i] # suggestions[j]
        /\ suggestions = SubSeq(FirstDiscoveries, 1, Min(5, Len(FirstDiscoveries)))

\* More than five tokens qualify, one of them found twice, and five are
\* returned.
C18_Witness ==
    /\ Suggested
    /\ Len(FirstDiscoveries) > 5
    /\ Len(suggestions) = 5
    /\ \E i, j \in 1..Len(IndexTokens) :
           i # j /\ IndexTokens[i] = IndexTokens[j] /\ IndexTokens[i] = suggestions[1]

(***************************************************************************)
(* Catalogue page: index, load order and pagination.                       *)
(***************************************************************************)
\* The page shows a catalogue that was fetched and indexed.
PageLoaded == phase = "ready" /\ loadError = NULL

\* C15: once the catalogue is loaded, no step of the page (search input,
\* debounced search with its suggestions, clear, filter save, load more, page
\* load) changes searchIndex or allProducts, and a step that leaves the query
\* and the filters as they were leaves the filtered results as they were; in
\* every state the filtered results are what a search for the current query
\* returns now, whatever searches ran in between.  stopWords is a constant of
\* the model, as no statement of the program assigns it after the constructor.
C15_SearchLeavesIndexAlone ==
    /\ [](PageLoaded => filteredProducts = filterProducts(filters))
    /\ [][phase = "ready" =>
              /\ searchIndex' = searchIndex
              /\ allProducts' = allProducts
              /\ filters' = filters => filteredProducts' = filteredProducts]_vars

\* A search that found nothing produced suggestions from the index, and the
\* next input of the search box is waiting for its timer.
C15_Witness ==
    /\ PageLoaded
    /\ Len(searchIndex) > itemsPerPage
    /\ hasSearchQuery(filters)
    /\ filteredProducts = <<>>
    /\ searchResultsInfo.query = filters.searchQuery
    /\ searchResultsInfo.didYouMean # <<>>
    /\ searchTimeout # NULL

\* C19: after a successful load allProducts is in non-increasing order of
\* confidence_score, a missing score counting as 0, and entry k of the index
\* is built from the product at position k of that order; both stay as
\* loaded, and with no query and no filter filteredProducts is allProducts.
C19_SortedByConfidence ==
    /\ [](PageLoaded =>
             /\ \A i, j \in 1..Len(allProducts) :
                    i < j => RatGeq(confidenceOrZero(allProducts[i]),
                                    confidenceOrZero(allProducts[j]))
             /\ Len(searchIndex) = Len(allProducts)
             /\ \A k \in 1..Len(allProducts) : searchIndex[k].productIndex = k - 1
             /\ filters = noFilters => filteredProducts = allProducts)
    /\ [][/\ phase = "constructed" /\ PageLoaded' =>
                  \A k \in 1..Len(allProducts') :
                      searchIndex'[k] = EntryOf(allProducts'[k], k)
           /\ PageLoaded => UNCHANGED <<allProducts, searchIndex>>]_vars

\* A catalogue of more than a page was fetched out of order, with products
\* without a score, and is shown without query and filters.
C19_Witness ==
    /\ PageLoaded
    /\ Len(allProducts) > itemsPerPage
    /\ allProducts # [i \in 1..Len(allProducts) |-> pageProduct(i)]
    /\ \E i \in 1..Len(allProducts) : allProducts[i].confidence_score = undefined
    /\ RatLess(confidenceOrZero(allProducts[Len(allProducts)]),
               confidenceOrZero(allProducts[1]))
    /\ filters = noFilters
    /\ filteredProducts = allProducts
    /\ displayedProducts # <<>>

\* the first n elements of arr
Prefix(arr, n) == SubSeq(arr, 1, Min(n, Len(arr)))

\* C20: in every state displayedProducts is the prefix of filteredProducts of
\* length min(currentPage * 24, Len(filteredProducts)), so that no filtered
\* product is displayed twice or skipped, and no step adds more than 24
\* products to displayedProducts.
C20_DisplayedIsPrefix ==
    /\ [](/\ displayedProducts = Prefix(filteredProducts, currentPage * 24)
          /\ \A i, j \in 1..Len(displayedProducts) :
                 i # j => displayedProducts[i] # displayedProducts[j])
    /\ [][Len(displayedProducts') <= Len(displayedProducts) + 24]_vars

\* The second page of the results of a search is on display, a page and one
\* product in all.
C20_Witness ==
    /\ hasSearchQuery(filters)
    /\ currentPage = 2
    /\ Len(displayedProducts) = itemsPerPage + 1
    /\ displayedProducts = filteredProducts
    /\ ~isLoading

(***************************************************************************)
(* Typo tolerance of the default threshold (specification SpecTypo).       *)
(***************************************************************************)
LettersOf(s) == {SubSeq(s, k, k) : k \in 1..Len(s)}

\* b is a with one character replaced.
DiffersAtOne(a, b) ==
    /\ Len(a) = Len(b)
    /\ Cardinality({k \in 1..Len(a) : SubSeq(a, k, k) # SubSeq(b, k, k)}) = 1

\* b is a with one character left out.
DropsOne(a, b) ==
    /\ Len(a) = Len(b) + 1
    /\ \E k \in 1..Len(a) : SubSeq(a, 1, k - 1) \o SubSeq(a, k + 1, Len(a)) = b

\* The edit distance of a and b is 1.
OneEditApart(a, b) == DiffersAtOne(a, b) \/ DropsOne(a, b) \/ DropsOne(b, a)

\* The edit distance of a and b is 2: they are neither equal nor one edit
\* apart, and one edit of a is one edit from b.
TwoEditsApart(a, b) ==
    /\ a # b
    /\ ~OneEditApart(a, b)
    /\ \E c \in Slips(a, LettersOf(b)) : OneEditApart(c, b)

LongerLength == Max(Len(term1), Len(term2))

\* fuzzyMatch ran with threshold 0.8 on two terms, the longer of 5 to 10
\* characters
TypoCase ==
    /\ fuzzyPc = "fuzzyMatch"
    /\ threshold = defaultThreshold
    /\ LongerLength \in 5..10

\* C21 as stated: two tokens whose longer length is between 5 and 10 and
\* whose edit distance is 1 or 2 fuzzy-match at threshold 0.8.
C21_OneOrTwoEditsMatch ==
    TypoCase /\ (OneEditApart(term1, term2) \/ TwoEditsApart(term1, term2)) => matched

\* C21: at threshold 0.8 two tokens whose longer length is between 5 and 10
\* match when their edit distance is 1; at edit distance 2 they match exactly
\* when the longer one has 10 characters or one contains the other.
C21_OneEditOrTenLong ==
    TypoCase =>
        /\ OneEditApart(term1, term2) => matched
        /\ TwoEditsApart(term1, term2) =>
               (matched <=> \/ LongerLength = 10
                            \/ Contains(term1, term2)
                            \/ Contains(term2, term1))

\* fuzzyMatch rejected "derss" for "dress": two neighbours exchanged, two
\* edits apart, similarity 0.6.
C21_Witness ==
    /\ TypoCase
    /\ term1 = "dress"
    /\ term2 = "derss"
    /\ TwoEditsApart(term1, term2)
    /\ ~matched

(***************************************************************************)
(* Properties of the catalogue page (specification SpecPage).              *)
(***************************************************************************)
\* C22: suggestions are shown only for a query whose search returns no
\* result: whenever #search-results-info holds a "Did you mean",
\* performAdvancedSearch of the query it was written for is empty.
C22_SuggestionsOnlyWithoutMatches ==
    PageLoaded /\ searchResultsInfo.didYouMean # <<>> =>
        performAdvancedSearch(searchResultsInfo.query) = <<>>

\* a step in which a debounce callback ran
SearchTimerRan == searchTimers' # searchTimers /\ searchTimers' \subseteq searchTimers

\* C23: an input event cancels the callback of the input before it and
\* changes neither the query nor the results, so that only the callback of
\* the last input of a burst is left; when it runs no callback remains, the
\* query becomes that input lowercased and trimmed and the filters are applied
\* to it; and the query is never set to anything else but '' by a clear.
C23_LastInputWins ==
    [][/\ searchTimers' \subseteq {searchTimeout'}
       /\ searchTimers' # searchTimers /\ ~SearchTimerRan =>
              /\ searchTimers' = {searchInput'}
              /\ UNCHANGED <<filters, filteredProducts, searchResultsInfo>>
       /\ SearchTimerRan =>
              /\ searchTimers' = {}
              /\ filters' = [filters EXCEPT
                                !.searchQuery = trim(toLowerCase(searchTimeout))]
              /\ filteredProducts' = filterProducts(filters')
              /\ currentPage' = 0
       /\ filters'.searchQuery # filters.searchQuery =>
              SearchTimerRan \/ filters'.searchQuery = ""]_vars

\* The callback of the input " Red" has run, with "coat" applied before it:
\* the query is the input lowercased and trimmed and no callback is left.
C23_Witness ==
    /\ PageLoaded
    /\ searchInput = " Red"
    /\ searchTimers = {}
    /\ filters.searchQuery = "red"
    /\ searchResultsInfo.query = "red"
    /\ Len(filteredProducts) > itemsPerPage

\* C27: while the search box is empty after a clear, and until the next
\* input event fills it, filters.searchQuery is ''.
C27_ClearedSearchStaysCleared ==
    PageLoaded /\ searchInput = "" => filters.searchQuery = ""

\* price within [priceMin, priceMax], a bound that is null not limiting
C24_PriceWithin(price, f) ==
    /\ f.priceMin # null => ~RatLess(price, f.priceMin)
    /\ f.priceMax # null => ~RatLess(f.priceMax, price)

\* the product passes every active filter
C24_Passes(item, f) ==
    /\ f.brands # {} => item.brand \in f.brands
    /\ f.categories # {} => item.enriched_category \in f.categories
    /\ \A attr \in {pair[1] : pair \in f.attributes} :
           \E pair \in item.attributes : pair[1] = attr /\ pair \in f.attributes
    /\ item.price_eur # undefined => C24_PriceWithin(item.price_eur, f)

\* C24: filteredProducts is the search-ranked list, or allProducts when the
\* query is empty, restricted to exactly the products that pass every active
\* filter, in unchanged order; a product with no price passes the price filter.
C24_ExactlyThePassingProducts ==
    PageLoaded =>
        filteredProducts =
            SelectSeq(productsToFilter(filters), LAMBDA item : C24_Passes(item, filters))

\* a step in which the page-load callback ran
LoadTimerRan == pendingLoads' < pendingLoads

\* a step in which applyFilters ran: the pagination is reset
FiltersApplied == PageLoaded /\ currentPage' = 0 /\ (currentPage # 0 \/ filteredProducts' # filteredProducts)

\* C28: at most one page-load callback is pending, and one is pending exactly
\* while isLoading; applyFilters leaves currentPage 0 with a callback pending,
\* whether or not an earlier page load was still pending; when the callback
\* runs on currentPage 0, isLoading is false, currentPage is 1 and
\* displayedProducts is the first min(24, length) products of the current
\* filteredProducts; and while isLoading only that callback changes isLoading
\* and the pending callbacks.
C28_FirstPageAfterFilters ==
    /\ [](pendingLoads = IF isLoading THEN 1 ELSE 0)
    /\ [][/\ FiltersApplied => isLoading' /\ pendingLoads' = 1 /\ displayedProducts' = <<>>
          /\ LoadTimerRan /\ currentPage = 0 =>
                 /\ ~isLoading'
                 /\ pendingLoads' = 0
                 /\ currentPage' = 1
                 /\ displayedProducts' =
                        SubSeq(filteredProducts', 1,
                               Min(itemsPerPage, Len(filteredProducts')))
          /\ isLoading /\ ~LoadTimerRan => isLoading' /\ pendingLoads' = pendingLoads]_vars

\* The first page of the products of one brand is on display after the
\* callback ran, the filter saved while the second page was loading or after.
C28_Witness ==
    /\ PageLoaded
    /\ filters.brands = {"Acme"}
    /\ ~isLoading
    /\ pendingLoads = 0
    /\ currentPage = 1
    /\ Len(displayedProducts) > 0
    /\ Len(displayedProducts) = Min(itemsPerPage, Len(filteredProducts))

(***************************************************************************)
(* Properties of the analytics queue (specification SpecAnalytics).        *)
(***************************************************************************)
\* the events of a queue or of a batch
Events(queue) == {queue[k] : k \in 1..Len(queue)}

\* the batches of the flushes whose Promise.all has not settled
UnsettledBatches(all) ==
    {all[k].eventsToSend : k \in {j \in 1..Len(all) : all[j].settled = "pending"}}

\* the events that a step takes out of the queue
Taken == Events(eventQueue) \ Events(eventQueue')

\* the batches for which a step runs the catch block
PutBack == UnsettledBatches(flushes) \ UnsettledBatches(flushes')

\* C25: every tracked event is in the queue, in the batch of a flush that has
\* not settled, or stored by the backend; no batch has more than batchSize
\* events; events leave the queue only as the batch of a flush that starts
\* in that step, and none does while the browser is offline; and when a
\* request fails the batch of its flush, unless it was put back before, is
\* put back at the head of the queue in its order.
C25_QueueLosesNoEvent ==
    /\ [](/\ \A event \in 1..Len(tracked) :
                 \/ event \in Events(eventQueue)
                 \/ \E batch \in UnsettledBatches(flushes) : event \in Events(batch)
                 \/ delivered[event] >= 1
          /\ \A k \in 1..Len(flushes) :
                 Len(flushes[k].eventsToSend) \in 1..batchSize)
    /\ [][/\ Taken # {} =>
                 /\ isOnline'
                 /\ Cardinality(Taken) <= batchSize
                 /\ Len(flushes') > 0
                 /\ flushes'[Len(flushes')].settled = "pending"
                 /\ Events(flushes'[Len(flushes')].eventsToSend) \cap Events(eventQueue)
                        = Taken
          /\ ~isOnline' => Taken = {}
          /\ failedRequests' > failedRequests =>
                 IF PutBack = {}
                 THEN eventQueue' = eventQueue
                 ELSE \E batch \in PutBack :
                          PutBack = {batch} /\ eventQueue' = batch \o eventQueue]_vars

\* A flush took the ten first of eleven queued clicks, its request failed and
\* the batch is back at the head, before the eleventh click.
C25_Witness ==
    /\ isOnline
    /\ failedRequests = 1
    /\ flushes = <<>>
    /\ eventQueue = [k \in 1..(batchSize + 1) |-> k]
    /\ \A event \in 1..Len(tracked) : delivered[event] = 0

\* C30: the backend stores no event more than once.
C30_DeliveredAtMostOnce == \A event \in DOMAIN delivered : delivered[event] <= 1

(***************************************************************************)
(* Properties of the favorites manager (specification SpecFavorites).      *)
(***************************************************************************)
\* a step in which the backend answered a request
Answered == Len(requests') < Len(requests)

\* a step in which a call of addFavorite or removeFavorite threw
Thrown ==
    /\ lastOutcome'.op \in {"add", "remove"}
    /\ lastOutcome'.result \in {"failed", "not authenticated"}
    /\ Answered \/ lastOutcome' # lastOutcome

\* C26: userFavorites changes only when the backend answers or on sign-out;
\* the answer to addFavorite changes it only by adding the product, which
\* the backend then holds (stored now or a duplicate key), the answer to
\* removeFavorite only by removing the product, which the backend no longer
\* holds; and a call that throws, for a user who is not authenticated or on
\* any other error, leaves userFavorites unchanged; and no insert or delete
\* is sent for a user who is not authenticated.
C26_FavoritesFollowBackend ==
    [][/\ userFavorites' # userFavorites =>
              \/ Answered
              \/ authEvent' = "SIGNED_OUT" /\ userFavorites' = {}
       /\ Answered /\ lastOutcome'.op = "add" /\ userFavorites' # userFavorites =>
              /\ lastOutcome'.result \in {"added", "already there"}
              /\ lastOutcome'.productId \in backendFavorites'
              /\ userFavorites' = userFavorites \cup {lastOutcome'.productId}
       /\ Answered /\ lastOutcome'.op = "remove" /\ userFavorites' # userFavorites =>
              /\ lastOutcome'.result = "removed"
              /\ lastOutcome'.productId \notin backendFavorites'
              /\ userFavorites' = userFavorites \ {lastOutcome'.productId}
       /\ Thrown =>
              /\ userFavorites' = userFavorites
              /\ backendFavorites' = backendFavorites
              /\ Len(requests') <= Len(requests)
       /\ ~isAuthenticated(authEvent) /\ Len(requests') > Len(requests) =>
              requests'[Len(requests')].op = "load"]_vars

\* The insert of p1 was denied after p2 was added: p1 is no favorite.
C26_Witness ==
    /\ isAuthenticated(authEvent)
    /\ lastOutcome = outcome("add", "p1", "failed")
    /\ userFavorites = {"p2"}
    /\ backendFavorites = {"p2"}
    /\ requests = <<>>

\* C29: from the SIGNED_OUT event to the next SIGNED_IN event userFavorites
\* is empty.
C29_EmptyWhileSignedOut == authEvent = "SIGNED_OUT" => userFavorites = {}

====
